---------------------------- MODULE Spec2Model ----------------------------
(***************************************************************************)
(* Control-plane protocol layer of saba-chan: the Source RCON clients      *)
(* (extensions/rcon.py, modules/palworld/lifecycle.py, the minimal client  *)
(* in modules/minecraft/lifecycle.py) and the Minecraft Server List Ping.  *)
(*                                                                         *)
(* Bytes are integers 0..255, byte strings are sequences of bytes.  A TCP  *)
(* byte stream is a sequence of segments (the pieces in which the bytes    *)
(* become available to recv) and what recv meets once they are used up.    *)
(***************************************************************************)
EXTENDS Integers, Sequences, FiniteSets, TLC

VARIABLES
    client,         \* which RCON client class the session under test is an instance of
    vi,             \* varint harness: the integer under test and what was computed
    fr,             \* frame harness: the frame on the wire and what a reader returned
    socket,         \* RconClient.socket: 0 is None, k > 0 the k-th socket created
    authenticated,  \* RconClient.authenticated
    password,       \* RconClient.password is non-empty
    sockOpen,       \* the sockets created so far that are not closed
    nsock,          \* number of sockets created so far
    inbox,          \* bytes the server wrote to the held socket, not yet received
    last,           \* the last RconClient call: operation, result, what went over the wire
    pal,            \* PalworldRconClient: fields, its sockets and its last call
    mc,             \* MinecraftPing.ping / _send_rcon_command: one call and its socket
    dp,             \* one run of a plugin entry point: argv, input, handler calls, stdout
    pv,             \* one run of compose_manager.provision: its steps and the files
    lc              \* one call of a module's lifecycle function: its input and what it did

vars == <<client, vi, fr, socket, authenticated, password, sockOpen, nsock, inbox, last, pal, mc,
          dp, pv, lc>>

hostVars == <<dp, pv, lc>>

rconVars == <<socket, authenticated, password, sockOpen, nsock, inbox, last>>

---------------------------------------------------------------------------
(* Bounds of the model. *)

\* longest payload, in bytes, of a frame put on the wire
MaxPayload == 2
\* integers -MaxSmall..MaxSmall are varint inputs besides the boundary values
MaxSmall == 20
\* sockets one client may create in one behaviour
MaxSockets == 2

---------------------------------------------------------------------------
(* Packet type constants. *)

SERVERDATA_AUTH == 3
SERVERDATA_AUTH_RESPONSE == 2
SERVERDATA_EXECCOMMAND == 2
SERVERDATA_RESPONSE_VALUE == 0

---------------------------------------------------------------------------
(* Bytes and struct.pack / struct.unpack. *)

\* TLC's integers are 32-bit: values are kept within -2^31 .. 2^31 - 1 and
\* anything wider (an unsigned 32-bit value, a Python integer beyond it) is split.
MaxInt32 == 2147483647
MinInt32 == -MaxInt32 - 1

Min(S) == CHOOSE x \in S : \A y \in S : x <= y

\* struct.pack("<i", v): four bytes, little-endian, two's complement
\* (the bytes of a negative v are the complements of the bytes of -(v + 1))
PackI32(v) ==
    LET w == IF v < 0 THEN -(v + 1) ELSE v
        b0 == w % 256
        b1 == (w \div 256) % 256
        b2 == (w \div 65536) % 256
        b3 == (w \div 16777216) % 256
    IN  IF v < 0 THEN << 255 - b0, 255 - b1, 255 - b2, 255 - b3 >> ELSE << b0, b1, b2, b3 >>

\* struct.unpack("<i", b)[0] for a 4-byte b
UnpackI32(b) ==
    b[1] + 256 * b[2] + 65536 * b[3] + 16777216 * (IF b[4] >= 128 THEN b[4] - 256 ELSE b[4])

\* b[i:j] of Python: 0-based, end exclusive, negative indexes count from the end,
\* both clipped to the string
SliceIndex(b, i) ==
    IF i < 0 THEN (IF Len(b) + i < 0 THEN 0 ELSE Len(b) + i)
    ELSE IF i > Len(b) THEN Len(b) ELSE i

Slice(b, i, j) ==
    IF SliceIndex(b, i) >= SliceIndex(b, j) THEN << >>
    ELSE SubSeq(b, SliceIndex(b, i) + 1, SliceIndex(b, j))

\* b[8:-2] of Python
Slice8ToMinus2(b) == Slice(b, 8, -2)

\* bytes.decode("utf-8", errors="replace") as a sequence of code points, for byte
\* strings whose bytes are ASCII or 0xFF: 0xFF begins no UTF-8 sequence and each
\* one is replaced by U+FFFD
ReplacementChar == 65533

RECURSIVE DecodeReplace(_)
DecodeReplace(b) ==
    IF b = << >> THEN << >>
    ELSE << IF Head(b) < 128 THEN Head(b) ELSE ReplacementChar >> \o DecodeReplace(Tail(b))

\* str.encode("utf-8") for text of ASCII characters and U+FFFD
RECURSIVE EncodeUtf8(_)
EncodeUtf8(t) ==
    IF t = << >> THEN << >>
    ELSE (IF Head(t) < 128 THEN << Head(t) >> ELSE << 239, 191, 189 >>) \o EncodeUtf8(Tail(t))

RECURSIVE Flatten(_)
Flatten(chunks) == IF chunks = << >> THEN << >> ELSE Head(chunks) \o Flatten(Tail(chunks))

---------------------------------------------------------------------------
(* The socket's receive side. *)

NoStream == [chunks |-> << >>, end |-> "timeout"]

\* socket.recv(n): at most n bytes of what has arrived; b"" once the peer has
\* closed; socket.timeout when nothing arrives in time; OSError on a reset.
Recv(s, n) ==
    IF n < 0 THEN [exc |-> "error", data |-> << >>, st |-> s]
    ELSE IF s.chunks = << >> THEN
        IF s.end = "close" THEN [exc |-> "none", data |-> << >>, st |-> s]
        ELSE [exc |-> s.end, data |-> << >>, st |-> s]
    ELSE IF n = 0 THEN [exc |-> "none", data |-> << >>, st |-> s]
    ELSE
        LET c == Head(s.chunks)
            k == IF n < Len(c) THEN n ELSE Len(c)
            rest == IF k = Len(c) THEN Tail(s.chunks)
                    ELSE << SubSeq(c, k + 1, Len(c)) >> \o Tail(s.chunks)
        IN  [exc |-> "none", data |-> SubSeq(c, 1, k), st |-> [s EXCEPT !.chunks = rest]]

\* the bytes b cut after each position of cuts, from position start on
RECURSIVE SplitAt(_, _, _)
SplitAt(b, cuts, start) ==
    IF start > Len(b) THEN << >>
    ELSE LET nexts == {c \in cuts : c >= start /\ c < Len(b)}
         IN  IF nexts = {} THEN << SubSeq(b, start, Len(b)) >>
             ELSE << SubSeq(b, start, Min(nexts)) >> \o SplitAt(b, cuts, Min(nexts) + 1)

---------------------------------------------------------------------------
(* RconClient: packets (extensions/rcon.py). *)

NoPacket == [ok |-> FALSE, id |-> 0, type |-> 0, payload |-> << >>]

\* a _send_packet whose length field counts the length field too
SendPacketCountsPrefix(req_id, pkt_type, payload) ==
    LET body == PackI32(req_id) \o PackI32(pkt_type) \o payload \o << 0, 0 >>
    IN  PackI32(Len(body) + 4) \o body

\* RconClient._send_packet: the bytes handed to sendall
SendPacket(req_id, pkt_type, payload) ==
    LET body == PackI32(req_id) \o PackI32(pkt_type) \o payload \o << 0, 0 >>
    IN  PackI32(Len(body)) \o body

\* RconClient._recv_exact: [exc, ok (a bytes value, not None), data, st]
RECURSIVE RecvExactFrom(_, _, _)
RecvExactFrom(s, length, buf) ==
    IF ~(Len(buf) < length) THEN [exc |-> "none", ok |-> TRUE, data |-> buf, st |-> s]
    ELSE LET r == Recv(s, length - Len(buf))
         IN  IF r.exc # "none" THEN [exc |-> r.exc, ok |-> FALSE, data |-> << >>, st |-> r.st]
             ELSE IF r.data = << >> THEN [exc |-> "none", ok |-> FALSE, data |-> << >>, st |-> r.st]
             ELSE RecvExactFrom(r.st, length, buf \o r.data)

RecvExact(s, length) == RecvExactFrom(s, length, << >>)

\* a reader that keeps the two terminator bytes in the payload
PayloadOfNoTerminatorStrip(data) == Slice(data, 8, Len(data))

\* the payload _read_packet takes out of the frame body
PayloadOf(data) == IF Len(data) > 10 THEN Slice8ToMinus2(data) ELSE << >>

\* _read_packet once the body has been asked for: r2 is what _recv_exact(size) gave
ReadPacketBody(r2) ==
    IF r2.exc # "none" THEN [pkt |-> NoPacket, st |-> r2.st]
    ELSE IF ~r2.ok \/ r2.data = << >> \/ Len(r2.data) < 8 THEN [pkt |-> NoPacket, st |-> r2.st]
    ELSE [pkt |-> [ok |-> TRUE,
                   id |-> UnpackI32(Slice(r2.data, 0, 4)),
                   type |-> UnpackI32(Slice(r2.data, 4, 8)),
                   payload |-> PayloadOf(r2.data)],
          st |-> r2.st]

\* _read_packet once the length has been asked for: r1 is what _recv_exact(4) gave
ReadPacketSize(r1) ==
    IF r1.exc # "none" THEN [pkt |-> NoPacket, st |-> r1.st]
    ELSE IF ~r1.ok \/ Len(r1.data) < 4 THEN [pkt |-> NoPacket, st |-> r1.st]
    ELSE ReadPacketBody(RecvExact(r1.st, UnpackI32(r1.data)))

\* RconClient._read_packet: [pkt, st]; pkt.ok = FALSE is None.  Every exception
\* of the reads is caught inside and gives None.
ReadPacket(s) == ReadPacketSize(RecvExact(s, 4))

---------------------------------------------------------------------------
(* PalworldRconClient._read_packet (modules/palworld/lifecycle.py). *)

\* the while loop of _read_packet: a b"" chunk breaks out with what was read;
\* a raised exception leaves the loop
RECURSIVE PalReadBody(_, _, _)
PalReadBody(s, size, buf) ==
    IF ~(Len(buf) < size) THEN [exc |-> "none", data |-> buf, st |-> s]
    ELSE LET r == Recv(s, size - Len(buf))
         IN  IF r.exc # "none" THEN [exc |-> r.exc, data |-> buf, st |-> r.st]
             ELSE IF r.data = << >> THEN [exc |-> "none", data |-> buf, st |-> r.st]
             ELSE PalReadBody(r.st, size, buf \o r.data)

\* _read_packet after its while loop: r2 is what the loop collected
PalReadPacketBody(r2) ==
    IF r2.exc # "none" THEN [pkt |-> NoPacket, st |-> r2.st]
    ELSE IF Len(r2.data) < 8 THEN [pkt |-> NoPacket, st |-> r2.st]
    ELSE [pkt |-> [ok |-> TRUE,
                   id |-> UnpackI32(Slice(r2.data, 0, 4)),
                   type |-> UnpackI32(Slice(r2.data, 4, 8)),
                   payload |-> Slice8ToMinus2(r2.data)],
          st |-> r2.st]

\* _read_packet after size_data = self.socket.recv(4), which is r1
PalReadPacketSize(r1) ==
    IF r1.exc # "none" THEN [pkt |-> NoPacket, st |-> r1.st]
    ELSE IF r1.data = << >> THEN [pkt |-> NoPacket, st |-> r1.st]
    \* struct.unpack on fewer than 4 bytes raises struct.error, caught: None
    ELSE IF Len(r1.data) # 4 THEN [pkt |-> NoPacket, st |-> r1.st]
    ELSE PalReadPacketBody(PalReadBody(r1.st, UnpackI32(r1.data), << >>))

\* PalworldRconClient._read_packet: [pkt, st]; pkt.ok = FALSE is None
PalReadPacket(s) == PalReadPacketSize(Recv(s, 4))

---------------------------------------------------------------------------
(* _send_rcon_command._read (modules/minecraft/lifecycle.py). *)

\* _read after raw = sock.recv(size), which is r2
McReadBody(r2) ==
    IF r2.exc # "none" THEN [exc |-> r2.exc, id |-> 0, payload |-> << >>, st |-> r2.st]
    \* struct.unpack("<i", raw[:4]) raises struct.error on a raw shorter than 4
    ELSE IF Len(Slice(r2.data, 0, 4)) < 4
    THEN [exc |-> "error", id |-> 0, payload |-> << >>, st |-> r2.st]
    ELSE [exc |-> "none",
          id |-> UnpackI32(Slice(r2.data, 0, 4)),
          payload |-> IF Len(r2.data) > 10
                      THEN DecodeReplace(Slice8ToMinus2(r2.data)) ELSE << >>,
          st |-> r2.st]

\* _read after raw_size = sock.recv(4), which is r1
McReadSize(r1) ==
    IF r1.exc # "none" THEN [exc |-> r1.exc, id |-> 0, payload |-> << >>, st |-> r1.st]
    ELSE IF Len(r1.data) < 4 THEN [exc |-> "none", id |-> -1, payload |-> << >>, st |-> r1.st]
    ELSE McReadBody(Recv(r1.st, UnpackI32(r1.data)))

\* _read: [exc, id, payload, st]; exc # "none" is an exception leaving _read
McRead(s) == McReadSize(Recv(s, 4))

---------------------------------------------------------------------------
(* MinecraftPing: varints (modules/minecraft/lifecycle.py). *)

\* a | b and a & b of Python for non-negative integers
RECURSIVE BitOr(_, _)
BitOr(a, b) ==
    IF a = 0 THEN b
    ELSE IF b = 0 THEN a
    ELSE (IF a % 2 = 1 \/ b % 2 = 1 THEN 1 ELSE 0) + 2 * BitOr(a \div 2, b \div 2)

RECURSIVE BitAnd(_, _)
BitAnd(a, b) ==
    IF a = 0 \/ b = 0 THEN 0
    ELSE (IF a % 2 = 1 /\ b % 2 = 1 THEN 1 ELSE 0) + 2 * BitAnd(a \div 2, b \div 2)

\* the while loop of _encode_varint, value >= 0
RECURSIVE EncodeVarintLoop(_, _)
EncodeVarintLoop(value, result) ==
    LET byte == BitAnd(value, 127)
        rest == value \div 128
        out  == IF rest # 0 THEN BitOr(byte, 128) ELSE byte
    IN  IF rest = 0 THEN Append(result, out)
        ELSE EncodeVarintLoop(rest, Append(result, out))

\* MinecraftPing._encode_varint.  For value < 0 the source adds 1 << 32 first; the
\* sum does not fit TLC's integers, so the first turn of the loop is taken
\* on value itself: (value + 2^32) & 0x7F = value mod 128 and
\* (value + 2^32) >> 7 = floor(value / 128) + 2^25, which is never 0.
EncodeVarint(value) ==
    IF value < 0
    THEN EncodeVarintLoop((value \div 128) + 33554432, << BitOr(value % 128, 128) >>)
    ELSE EncodeVarintLoop(value, << >>)

\* x << sh of Python, as its bits below bit 31 and its bits from bit 31 up
LowBits(x, sh) ==
    IF sh <= 24 THEN x * 2 ^ sh
    ELSE IF sh >= 31 THEN 0
    ELSE (x % 2 ^ (31 - sh)) * 2 ^ sh

HighBits(x, sh) ==
    IF sh <= 24 THEN 0
    ELSE IF sh >= 31 THEN x * 2 ^ (sh - 31)
    ELSE x \div 2 ^ (31 - sh)

\* a decoder without the sign step: a set bit 31 leaves the value at 2^31 or more
SignFixNone(hi, lo) ==
    IF hi = 0 THEN [big |-> FALSE, value |-> lo] ELSE [big |-> TRUE, value |-> 0]

\* the sign step that ends _read_varint, on result = hi * 2^31 + lo:
\* "if result & (1 << 31): result -= 1 << 32".  big: the value is 2^31 or more.
SignFix(hi, lo) ==
    IF hi = 0 THEN [big |-> FALSE, value |-> lo]
    ELSE IF hi = 1 THEN [big |-> FALSE, value |-> (lo - MaxInt32) - 1]
    ELSE [big |-> TRUE, value |-> 0]

\* the while loop of _read_varint; offset counts from 0 as in the source
RECURSIVE ReadVarintLoop(_, _, _, _, _)
ReadVarintLoop(data, offset, hi, lo, shift) ==
    IF offset >= Len(data) THEN [exc |-> TRUE, big |-> FALSE, value |-> 0, offset |-> offset]
    ELSE LET byte == data[offset + 1]
             lo2  == BitOr(lo, LowBits(BitAnd(byte, 127), shift))
             hi2  == BitOr(hi, HighBits(BitAnd(byte, 127), shift))
         IN  IF BitAnd(byte, 128) = 0
             THEN [exc |-> FALSE, big |-> SignFix(hi2, lo2).big,
                   value |-> SignFix(hi2, lo2).value, offset |-> offset + 1]
             ELSE ReadVarintLoop(data, offset + 1, hi2, lo2, shift + 7)

\* MinecraftPing._read_varint: exc is the ValueError "VarInt too short"
ReadVarint(data, offset) == ReadVarintLoop(data, offset, 0, 0, 0)

---------------------------------------------------------------------------
(* Varint harness: encode an integer, then decode what was encoded. *)

VarintInputs ==
    {MinInt32, MinInt32 + 1, -268435457, -268435456, -129, -128, -127, 127, 128, 129,
     255, 256, 16383, 16384, 2097151, 2097152, 268435455, 268435456,
     MaxInt32 - 1, MaxInt32}
    \cup (-MaxSmall .. MaxSmall)

viIdle == [stage |-> "idle", n |-> 0, enc |-> << >>,
           dec |-> [exc |-> FALSE, big |-> FALSE, value |-> 0, offset |-> 0]]

VarintEncode ==
    /\ vi.stage = "input"
    /\ vi' = [vi EXCEPT !.stage = "encoded", !.enc = EncodeVarint(vi.n)]
    /\ UNCHANGED <<client, fr, pal, mc>>
    /\ UNCHANGED hostVars
    /\ UNCHANGED rconVars

VarintDecode ==
    /\ vi.stage = "encoded"
    /\ vi' = [vi EXCEPT !.stage = "decoded", !.dec = ReadVarint(vi.enc, 0)]
    /\ UNCHANGED <<client, fr, pal, mc>>
    /\ UNCHANGED hostVars
    /\ UNCHANGED rconVars

---------------------------------------------------------------------------
(* Frame harness: one frame written by _send_packet, delivered whole or cut *)
(* short, in segments, to one of the three packet readers.                  *)

\* segments in which a stream may arrive: MaxCuts cuts make MaxCuts + 1 segments
MaxCuts == 1

Bytes01 == {0, 65}

RECURSIVE ByteStrings(_, _)
ByteStrings(alphabet, n) ==
    IF n = 0 THEN {<< >>}
    ELSE LET shorter == ByteStrings(alphabet, n - 1)
         IN  shorter \cup {Append(b, x) : b \in {y \in shorter : Len(y) = n - 1}, x \in alphabet}

FrameIds == {MinInt32, -1, 0, 1, MaxInt32}
FrameTypes == {SERVERDATA_RESPONSE_VALUE, SERVERDATA_EXECCOMMAND, SERVERDATA_AUTH}

\* the sets of at most m cut positions in a stream of n bytes
RECURSIVE CutSetsUpTo(_, _)
CutSetsUpTo(n, m) ==
    IF m = 0 THEN {{}}
    ELSE LET fewer == CutSetsUpTo(n, m - 1)
         IN  fewer \cup {c \cup {x} : c \in fewer, x \in 1 .. n - 1}

CutSets(n) == CutSetsUpTo(n, MaxCuts)

frIdle == [stage |-> "idle", id |-> 0, type |-> 0, payload |-> << >>, sent |-> 0,
           cuts |-> {}, end |-> "close", reader |-> "none",
           pkt |-> NoPacket, exc |-> "none", left |-> << >>]

\* the bytes of the frame and the stream the reader is given
FrameBytes == SendPacket(fr.id, fr.type, fr.payload)
FrameStream == [chunks |-> SplitAt(SubSeq(FrameBytes, 1, fr.sent), fr.cuts, 1), end |-> fr.end]
FrameComplete == fr.sent = Len(FrameBytes)

FrameInit ==
    \E i \in FrameIds, t \in FrameTypes, p \in ByteStrings(Bytes01, MaxPayload),
       e \in {"close", "timeout"} :
        \E n \in 0 .. Len(SendPacket(i, t, p)) :
            \E c \in CutSets(n) :
                fr = [frIdle EXCEPT !.stage = "sent", !.id = i, !.type = t, !.payload = p,
                                    !.sent = n, !.cuts = c, !.end = e]

FrameReadRcon ==
    /\ fr.stage = "sent"
    /\ LET r == ReadPacket(FrameStream)
       IN  fr' = [fr EXCEPT !.stage = "read", !.reader = "rcon", !.pkt = r.pkt,
                            !.left = r.st.chunks]
    /\ UNCHANGED <<client, vi, pal, mc>>
    /\ UNCHANGED hostVars
    /\ UNCHANGED rconVars

FrameReadPalworld ==
    /\ fr.stage = "sent"
    /\ LET r == PalReadPacket(FrameStream)
       IN  fr' = [fr EXCEPT !.stage = "read", !.reader = "palworld", !.pkt = r.pkt,
                            !.left = r.st.chunks]
    /\ UNCHANGED <<client, vi, pal, mc>>
    /\ UNCHANGED hostVars
    /\ UNCHANGED rconVars

FrameReadMinecraft ==
    /\ fr.stage = "sent"
    /\ LET r == McRead(FrameStream)
       IN  fr' = [fr EXCEPT !.stage = "read", !.reader = "minecraft", !.exc = r.exc,
                            !.pkt = [ok |-> r.exc = "none", id |-> r.id,
                                     type |-> fr.type, payload |-> r.payload],
                            !.left = r.st.chunks]
    /\ UNCHANGED <<client, vi, pal, mc>>
    /\ UNCHANGED hostVars
    /\ UNCHANGED rconVars

---------------------------------------------------------------------------
(* The RCON server and the network, as the clients meet them. *)

\* the server writes a reply only while fewer than MaxBacklog segments it wrote
\* earlier are still unread
MaxBacklog == 1

\* what one request is answered with: the segments that arrive and what recv
\* meets after them.  q is the request id, rtype the response type, pl the payload.
ReplyKinds == {"echo", "split", "reject", "silent", "close", "reset", "short",
               "trunc", "frag", "late"}

ServerReply(kind, q, rtype, pl) ==
    LET frame == SendPacket(q, rtype, pl)
    IN  CASE kind = "echo"   -> [chunks |-> << frame >>, end |-> "timeout"]
          [] kind = "split"  -> [chunks |-> SplitAt(frame, {2, 9}, 1), end |-> "timeout"]
          [] kind = "reject" -> [chunks |-> << SendPacket(-1, SERVERDATA_AUTH_RESPONSE, << >>) >>,
                                 end |-> "timeout"]
          [] kind = "silent" -> [chunks |-> << >>, end |-> "timeout"]
          [] kind = "late"   -> [chunks |-> << >>, end |-> "timeout"]
          [] kind = "close"  -> [chunks |-> << >>, end |-> "close"]
          [] kind = "reset"  -> [chunks |-> << >>, end |-> "error"]
          [] kind = "short"  -> [chunks |-> << PackI32(4) \o PackI32(q) >>, end |-> "timeout"]
          [] kind = "trunc"  -> [chunks |-> << SubSeq(frame, 1, Len(frame) - 1) >>, end |-> "close"]
          [] kind = "frag"   -> [chunks |-> << frame, frame >>, end |-> "timeout"]

\* the frame that arrives after the call that waited for it has returned
LateFrames(kind, q, rtype, pl) ==
    IF kind = "late" THEN << SendPacket(q, rtype, pl) >> ELSE << >>

\* a peer that closed or reset the connection sends nothing more
AppendReply(box, rep) ==
    IF box.end = "timeout" THEN [chunks |-> box.chunks \o rep.chunks, end |-> rep.end]
    ELSE box

AppendLate(box, frames) ==
    IF box.end = "timeout" THEN [box EXCEPT !.chunks = box.chunks \o frames] ELSE box

KindsFor(box) ==
    IF Len(box.chunks) < MaxBacklog THEN ReplyKinds ELSE {"silent", "close", "reset"}

\* payloads of the server's responses: empty, ASCII, and bytes that are not UTF-8
ReplyPayloads == {<< >>, << 65 >>, << 255, 65 >>}

\* command texts
CommandTexts == {<< 108 >>, << 115, 116 >>}

\* configured password, as bytes
PasswordBytes == << 112 >>

\* RconClient._next_id: random.randint(1, 2147483647)
NextIds == {1, MaxInt32}

---------------------------------------------------------------------------
(* RconClient (extensions/rcon.py). *)

NoSent == << >>

lastIdle == [op |-> "none", hadSocket |-> FALSE, ret |-> "none", text |-> << >>,
             cmd |-> << >>, sent |-> NoSent, attempts |-> 0, opened |-> 0, peak |-> 0,
             connRet |-> "none", authKind |-> "none", authWire |-> << >>,
             execKind |-> "none", wire |-> << >>, left |-> << >>, used |-> 0]

\* an _authenticate that does not compare the echoed id with -1
AuthAcceptedAnyId(pkt) == pkt.ok

\* _authenticate's verdict on the packet it read
AuthAccepted(pkt) == pkt.ok /\ pkt.id # -1

\* an _authenticate that sends its Auth packet a second time when the first
\* answer is not an acceptance
AuthOutcomeResend(e, b1, r) ==
    [exc |-> "none", ok |-> AuthAccepted(r.pkt),
     box |-> AppendLate(r.st, LateFrames(e.reply, e.id, SERVERDATA_AUTH_RESPONSE, << >>)),
     sent |-> IF AuthAccepted(r.pkt)
              THEN << [type |-> SERVERDATA_AUTH, id |-> e.id, payload |-> PasswordBytes] >>
              ELSE << [type |-> SERVERDATA_AUTH, id |-> e.id, payload |-> PasswordBytes],
                      [type |-> SERVERDATA_AUTH, id |-> e.id, payload |-> PasswordBytes] >>,
     kind |-> e.reply, wire |-> Flatten(b1.chunks)]

\* _authenticate after its packet was sent: b1 is the socket's stream with the
\* server's answer, r what _read_packet made of it
AuthOutcome(e, b1, r) ==
    [exc |-> "none", ok |-> AuthAccepted(r.pkt),
     box |-> AppendLate(r.st, LateFrames(e.reply, e.id, SERVERDATA_AUTH_RESPONSE, << >>)),
     sent |-> << [type |-> SERVERDATA_AUTH, id |-> e.id, payload |-> PasswordBytes] >>,
     kind |-> e.reply, wire |-> Flatten(b1.chunks)]

AuthExchange(e, b1) == AuthOutcome(e, b1, ReadPacket(b1))

\* RconClient._authenticate on a connected socket: [exc, ok, box, sent, kind, wire]
Authenticate(box, e) ==
    IF e.sendFails
    THEN [exc |-> "error", ok |-> FALSE, box |-> box, sent |-> NoSent,
          kind |-> "none", wire |-> << >>]
    ELSE AuthExchange(e, AppendReply(box, ServerReply(e.reply, e.id, SERVERDATA_AUTH_RESPONSE, << >>)))

\* the client as a record, for the calls that work on it
Self == [socket |-> socket, authenticated |-> authenticated, sockOpen |-> sockOpen,
         nsock |-> nsock, inbox |-> inbox, ret |-> FALSE, sent |-> NoSent,
         attempts |-> 0, opened |-> 0, peak |-> Cardinality(sockOpen),
         authKind |-> "none", authWire |-> << >>]

\* connect() from "if self.password:" on; made is the client with the new socket k
\* connected, kept the open sockets, a what _authenticate did
ConnectAuth(made, kept, k, a) ==
    IF a.exc # "none"
    \* the exception handler: _cleanup
    THEN [made EXCEPT !.socket = 0, !.sockOpen = kept \ {k}, !.inbox = NoStream,
                      !.sent = a.sent, !.authKind = a.kind, !.authWire = a.wire]
    ELSE IF ~a.ok
    \* "return False": the socket stays open and held
    THEN [made EXCEPT !.socket = k, !.sockOpen = kept, !.inbox = a.box,
                      !.sent = a.sent, !.authKind = a.kind, !.authWire = a.wire]
    ELSE [made EXCEPT !.socket = k, !.sockOpen = kept, !.inbox = a.box,
                      !.sent = a.sent, !.authKind = a.kind, !.authWire = a.wire,
                      !.authenticated = TRUE, !.ret = TRUE]

\* connect() after self.socket = socket.socket(...): k is the new socket, kept the
\* open sockets once the old socket object, if any, has been dropped
ConnectOn(me, e, k, kept) ==
    IF e.conn # "ok"
    THEN [me EXCEPT !.nsock = k, !.opened = k, !.attempts = 1,
                    !.peak = Cardinality(me.sockOpen \cup {k}),
                    !.socket = 0, !.sockOpen = kept \ {k}, !.inbox = NoStream]
    ELSE IF ~password
    THEN [me EXCEPT !.nsock = k, !.opened = k, !.attempts = 1,
                    !.peak = Cardinality(me.sockOpen \cup {k}),
                    !.socket = k, !.sockOpen = kept, !.inbox = NoStream, !.ret = TRUE]
    ELSE ConnectAuth([me EXCEPT !.nsock = k, !.opened = k, !.attempts = 1,
                                !.peak = Cardinality(me.sockOpen \cup {k})],
                     kept, k, Authenticate(NoStream, e))

\* RconClient.connect with what the environment does during the call:
\* e.create ("ok", or "nofd": socket.socket() raises), e.gc (the socket object the
\* assignment to self.socket drops is closed by its finalizer), e.conn ("ok",
\* "refused", "timeout"), e.id, e.sendFails, e.reply (the authentication exchange)
ConnectCall(me, e) ==
    IF e.create = "nofd"
    \* the exception handler: _cleanup closes and clears the socket still held
    THEN [me EXCEPT !.socket = 0, !.sockOpen = me.sockOpen \ {me.socket}, !.inbox = NoStream]
    ELSE ConnectOn(me, e, me.nsock + 1,
                   IF me.socket # 0 /\ e.gc
                   THEN (me.sockOpen \cup {me.nsock + 1}) \ {me.socket}
                   ELSE me.sockOpen \cup {me.nsock + 1})

\* what the environment may do during one connect()
ConnectEnvs ==
    LET gcs == IF socket # 0 THEN BOOLEAN ELSE {FALSE}
        dflt == [create |-> "ok", gc |-> FALSE, conn |-> "ok", id |-> 1,
                 sendFails |-> FALSE, reply |-> "silent"]
    IN  {[dflt EXCEPT !.create = "nofd"]}
        \cup {[dflt EXCEPT !.gc = g, !.conn = c] : g \in gcs, c \in {"refused", "timeout"}}
        \cup (IF ~password THEN {[dflt EXCEPT !.gc = g] : g \in gcs}
              ELSE {[dflt EXCEPT !.gc = g, !.id = q, !.sendFails = TRUE] : g \in gcs, q \in NextIds}
                   \cup {[dflt EXCEPT !.gc = g, !.id = q, !.reply = k] :
                            g \in gcs, q \in NextIds, k \in KindsFor(NoStream)})

RetOfBool(b) == IF b THEN "True" ELSE "False"

\* the call's record in last
ConnectRecord(c, had) ==
    [lastIdle EXCEPT !.op = "connect", !.hadSocket = had, !.ret = RetOfBool(c.ret),
                     !.sent = c.sent, !.attempts = c.attempts, !.opened = c.opened,
                     !.peak = c.peak, !.authKind = c.authKind, !.authWire = c.authWire,
                     !.used = c.socket]

ConnectDone(c) ==
    /\ socket' = c.socket
    /\ authenticated' = c.authenticated
    /\ sockOpen' = c.sockOpen
    /\ nsock' = c.nsock
    /\ inbox' = c.inbox
    /\ last' = ConnectRecord(c, socket # 0)

Connect ==
    /\ client = "RconClient"
    /\ nsock < MaxSockets
    /\ \E e \in ConnectEnvs : ConnectDone(ConnectCall(Self, e))
    /\ UNCHANGED <<client, password, vi, fr, pal, mc>>
    /\ UNCHANGED hostVars

\* RconClient._cleanup
CleanupSockOpen == sockOpen \ {socket}

\* RconClient.disconnect
Disconnect ==
    /\ client = "RconClient"
    /\ socket' = 0
    /\ sockOpen' = CleanupSockOpen
    /\ authenticated' = FALSE
    /\ inbox' = NoStream
    /\ last' = [lastIdle EXCEPT !.op = "disconnect", !.hadSocket = socket # 0,
                                !.peak = Cardinality(sockOpen)]
    /\ UNCHANGED <<client, password, nsock, vi, fr, pal, mc>>
    /\ UNCHANGED hostVars

\* a command() that sends its text with the Auth packet type
ExecPacketAsAuth(q, cmd) == [type |-> SERVERDATA_AUTH, id |-> q, payload |-> EncodeUtf8(cmd)]

\* the packet command() sends
ExecPacket(q, cmd) == [type |-> SERVERDATA_EXECCOMMAND, id |-> q, payload |-> EncodeUtf8(cmd)]

\* a command() that ignores what the implicit connect returned
ImplicitConnectFailedNever(c) == FALSE

\* command()'s test of the implicit connect: "if not self.connect(): return None"
ImplicitConnectFailed(c) == ~c.ret

FramedKinds == {"echo", "split", "trunc", "frag", "late"}

\* what the environment may do during the command exchange on a socket with inbox box
ExecEnvs(box) ==
    {[id |-> q, sendFails |-> TRUE, reply |-> "silent", payload |-> << >>] : q \in NextIds}
    \cup {[id |-> q, sendFails |-> FALSE, reply |-> k, payload |-> << >>] :
             q \in NextIds, k \in KindsFor(box) \ FramedKinds}
    \cup {[id |-> q, sendFails |-> FALSE, reply |-> k, payload |-> p] :
             q \in NextIds, k \in KindsFor(box) \cap FramedKinds, p \in ReplyPayloads}

\* the try block of command() after its packet was sent: b1 is the socket's stream
\* with the server's answer, r what _read_packet made of it
ExecOutcome(x, cmd, b1, r) ==
    [ret |-> IF r.pkt.ok THEN "text" ELSE "None",
     text |-> IF r.pkt.ok THEN DecodeReplace(r.pkt.payload) ELSE << >>,
     sent |-> << ExecPacket(x.id, cmd) >>,
     box |-> AppendLate(r.st, LateFrames(x.reply, x.id, SERVERDATA_RESPONSE_VALUE, x.payload)),
     kind |-> x.reply, wire |-> Flatten(b1.chunks), left |-> Flatten(r.st.chunks)]

ExecExchange(x, cmd, b1) == ExecOutcome(x, cmd, b1, ReadPacket(b1))

\* the try block of RconClient.command on socket sk with inbox box:
\* [ret, text, sent, box, kind, wire, left]
ExecCall(sk, box, x, cmd) ==
    IF sk = 0 \/ x.sendFails
    \* None has no sendall, sendall raised: "except Exception" returns None
    THEN [ret |-> "None", text |-> << >>, sent |-> NoSent, box |-> box,
          kind |-> "none", wire |-> Flatten(box.chunks), left |-> Flatten(box.chunks)]
    ELSE ExecExchange(x, cmd, AppendReply(box,
             ServerReply(x.reply, x.id, SERVERDATA_RESPONSE_VALUE, x.payload)))

\* the call's record in last: c is the client after the implicit connect (or as it
\* was, when a socket was held), r the outcome of the try block
CommandRecord(c, cmd, r) ==
    [lastIdle EXCEPT !.op = "command", !.hadSocket = socket # 0, !.cmd = cmd,
                     !.connRet = IF socket # 0 THEN "none" ELSE RetOfBool(c.ret),
                     !.attempts = c.attempts, !.opened = c.opened, !.peak = c.peak,
                     !.authKind = c.authKind, !.authWire = c.authWire,
                     !.ret = r.ret, !.text = r.text, !.sent = c.sent \o r.sent,
                     !.execKind = r.kind, !.wire = r.wire, !.left = r.left,
                     !.used = c.socket]

CommandDone(c, cmd, r) ==
    /\ socket' = c.socket
    /\ authenticated' = c.authenticated
    /\ sockOpen' = c.sockOpen
    /\ nsock' = c.nsock
    /\ inbox' = r.box
    /\ last' = CommandRecord(c, cmd, r)

\* command() returning None because the implicit connect failed
NotConnected(c) ==
    [ret |-> "None", text |-> << >>, sent |-> NoSent, box |-> c.inbox,
     kind |-> "none", wire |-> << >>, left |-> << >>]

\* command() after "if not self.socket:"; c is the client then
CommandOn(c, cmd) ==
    IF socket = 0 /\ ImplicitConnectFailed(c)
    THEN CommandDone(c, cmd, NotConnected(c))
    ELSE \E x \in ExecEnvs(c.inbox) : CommandDone(c, cmd, ExecCall(c.socket, c.inbox, x, cmd))

\* RconClient.command
Command ==
    /\ client = "RconClient"
    /\ socket = 0 => nsock < MaxSockets
    /\ \E cmd \in CommandTexts :
        IF socket = 0
        THEN \E e \in ConnectEnvs : CommandOn(ConnectCall(Self, e), cmd)
        ELSE CommandOn(Self, cmd)
    /\ UNCHANGED <<client, password, vi, fr, pal, mc>>
    /\ UNCHANGED hostVars

---------------------------------------------------------------------------
(* PalworldRconClient (modules/palworld/lifecycle.py). *)

\* bytes.decode("utf-8", errors="ignore") for bytes that are ASCII or 0xFF
RECURSIVE DecodeIgnore(_)
DecodeIgnore(b) ==
    IF b = << >> THEN << >>
    ELSE (IF Head(b) < 128 THEN << Head(b) >> ELSE << >>) \o DecodeIgnore(Tail(b))

\* PalworldRconClient._make_packet: random.randint(0, 2147483647)
PalIds == {0, MaxInt32}

\* PalworldRconClient._make_packet with request id q drawn: id, type, payload,
\* terminator, and the size of those in front
PalMakePacket(q, packet_type, payload) ==
    LET packet_data == PackI32(q) \o PackI32(packet_type) \o payload \o << 0, 0 >>
        size == Len(packet_data)
    IN  PackI32(size) \o packet_data

palLastIdle == [op |-> "none", hadSocket |-> FALSE, ret |-> "none", text |-> << >>,
                cmd |-> << >>, sent |-> NoSent, attempts |-> 0, opened |-> 0, peak |-> 0,
                connRet |-> "none", authKind |-> "none", authWire |-> << >>,
                execKind |-> "none", wire |-> << >>, left |-> << >>, used |-> 0]

\* socket: 0 is None; connected: the held socket's connect() succeeded
palInit == [socket |-> 0, connected |-> FALSE, authenticated |-> FALSE, sockOpen |-> {},
            nsock |-> 0, inbox |-> NoStream, last |-> palLastIdle]

\* sendall and recv raise OSError on a socket that is closed or was never connected
PalUsable(p) == p.socket \in p.sockOpen /\ p.connected

\* _authenticate's verdict on the packet it read
PalAuthAccepted(pkt) == pkt.ok /\ pkt.id # -1

\* _authenticate after its packet was sent
PalAuthOutcome(e, b1, r) ==
    [ok |-> PalAuthAccepted(r.pkt),
     box |-> AppendLate(r.st, LateFrames(e.reply, e.id, SERVERDATA_AUTH_RESPONSE, << >>)),
     sent |-> << [type |-> SERVERDATA_AUTH, id |-> e.id, payload |-> PasswordBytes] >>,
     kind |-> e.reply, wire |-> Flatten(b1.chunks)]

PalAuthExchange(e, b1) == PalAuthOutcome(e, b1, PalReadPacket(b1))

\* PalworldRconClient._authenticate: [ok, box, sent, kind, wire]; an exception of
\* sendall is caught inside and gives False
PalAuthenticate(box, e) ==
    IF e.sendFails
    THEN [ok |-> FALSE, box |-> box, sent |-> NoSent, kind |-> "none", wire |-> << >>]
    ELSE PalAuthExchange(e, AppendReply(box,
             ServerReply(e.reply, e.id, SERVERDATA_AUTH_RESPONSE, << >>)))

\* connect() from "if self.password:" on; made is the client with its new socket
\* connected, a what _authenticate did (which sets self.authenticated itself)
PalConnectAuth(made, a) ==
    [made EXCEPT !.inbox = a.box, !.last.sent = a.sent, !.last.authKind = a.kind,
                 !.last.authWire = a.wire,
                 !.authenticated = IF a.ok THEN TRUE ELSE made.authenticated,
                 !.last.ret = IF a.ok THEN "True" ELSE "False"]

\* connect() after self.socket = socket.socket(...): made is the client holding the
\* new socket, not yet connected.  The exception handler returns False and
\* leaves the socket as it is.
PalConnectOn(made, e) ==
    IF e.conn # "ok" THEN made
    ELSE IF ~password THEN [made EXCEPT !.connected = TRUE, !.last.ret = "True"]
    ELSE PalConnectAuth([made EXCEPT !.connected = TRUE], PalAuthenticate(NoStream, e))

\* the call's record in last, before the call has done anything
PalConnectRecord(p) ==
    [palLastIdle EXCEPT !.op = "connect", !.hadSocket = p.socket # 0,
                        !.peak = Cardinality(p.sockOpen), !.ret = "False"]

\* PalworldRconClient.connect: p with the call's effect, and in p.last what happened
PalConnectCall(p, e) ==
    IF e.create = "nofd" THEN [p EXCEPT !.last = PalConnectRecord(p)]
    ELSE PalConnectOn(
            [p EXCEPT !.socket = p.nsock + 1, !.connected = FALSE,
                      !.sockOpen = IF p.socket # 0 /\ e.gc
                                   THEN (p.sockOpen \cup {p.nsock + 1}) \ {p.socket}
                                   ELSE p.sockOpen \cup {p.nsock + 1},
                      !.nsock = p.nsock + 1, !.inbox = NoStream,
                      !.last = [PalConnectRecord(p) EXCEPT
                                   !.attempts = 1, !.opened = p.nsock + 1,
                                   !.peak = Cardinality(p.sockOpen \cup {p.nsock + 1}),
                                   !.used = p.nsock + 1]],
            e)

PalConnectEnvs(p) ==
    LET gcs == IF p.socket # 0 THEN BOOLEAN ELSE {FALSE}
        dflt == [create |-> "ok", gc |-> FALSE, conn |-> "ok", id |-> 0,
                 sendFails |-> FALSE, reply |-> "silent"]
    IN  {[dflt EXCEPT !.create = "nofd"]}
        \cup {[dflt EXCEPT !.gc = g, !.conn = c] : g \in gcs, c \in {"refused", "timeout"}}
        \cup (IF ~password THEN {[dflt EXCEPT !.gc = g] : g \in gcs}
              ELSE {[dflt EXCEPT !.gc = g, !.id = q, !.sendFails = TRUE] : g \in gcs, q \in PalIds}
                   \cup {[dflt EXCEPT !.gc = g, !.id = q, !.reply = k] :
                            g \in gcs, q \in PalIds, k \in KindsFor(NoStream)})

PalConnect ==
    /\ client = "PalworldRconClient"
    /\ pal.nsock < MaxSockets
    /\ \E e \in PalConnectEnvs(pal) : pal' = PalConnectCall(pal, e)
    /\ UNCHANGED <<client, vi, fr, mc>>
    /\ UNCHANGED hostVars
    /\ UNCHANGED rconVars

\* PalworldRconClient.disconnect: closes the socket, keeps self.socket and authenticated
PalDisconnect ==
    /\ client = "PalworldRconClient"
    /\ pal' = [pal EXCEPT !.sockOpen = pal.sockOpen \ {pal.socket},
                          !.last = [palLastIdle EXCEPT !.op = "disconnect",
                                                       !.hadSocket = pal.socket # 0,
                                                       !.peak = Cardinality(pal.sockOpen),
                                                       !.used = pal.socket]]
    /\ UNCHANGED <<client, vi, fr, mc>>
    /\ UNCHANGED hostVars
    /\ UNCHANGED rconVars

PalExecEnvs(box) ==
    {[id |-> q, sendFails |-> TRUE, reply |-> "silent", payload |-> << >>,
      rtype |-> SERVERDATA_RESPONSE_VALUE] : q \in PalIds}
    \cup {[id |-> q, sendFails |-> FALSE, reply |-> k, payload |-> << >>,
           rtype |-> SERVERDATA_RESPONSE_VALUE] : q \in PalIds, k \in KindsFor(box) \ FramedKinds}
    \cup {[id |-> q, sendFails |-> FALSE, reply |-> k, payload |-> pl, rtype |-> t] :
             q \in PalIds, k \in KindsFor(box) \cap FramedKinds, pl \in ReplyPayloads,
             t \in {SERVERDATA_RESPONSE_VALUE, SERVERDATA_AUTH_RESPONSE}}

\* _send_rcon_command after its packet was sent
PalExecOutcome(p, x, cmd, b1, r) ==
    [p EXCEPT !.inbox = AppendLate(r.st, LateFrames(x.reply, x.id, x.rtype, x.payload)),
              !.last.ret = IF r.pkt.ok /\ r.pkt.type = SERVERDATA_RESPONSE_VALUE
                           THEN "text" ELSE "None",
              !.last.text = IF r.pkt.ok /\ r.pkt.type = SERVERDATA_RESPONSE_VALUE
                            THEN DecodeIgnore(r.pkt.payload) ELSE << >>,
              !.last.sent = p.last.sent \o
                  << [type |-> SERVERDATA_EXECCOMMAND, id |-> x.id,
                      payload |-> EncodeUtf8(cmd)] >>,
              !.last.execKind = x.reply,
              !.last.wire = Flatten(b1.chunks),
              !.last.left = Flatten(r.st.chunks)]

PalExecExchange(p, x, cmd, b1) == PalExecOutcome(p, x, cmd, b1, PalReadPacket(b1))

\* PalworldRconClient._send_rcon_command on the client p; an exception of sendall
\* is caught inside and gives None
PalSendRconCommand(p, x, cmd) ==
    IF ~p.authenticated THEN [p EXCEPT !.last.ret = "None"]
    ELSE IF ~PalUsable(p) \/ x.sendFails THEN [p EXCEPT !.last.ret = "None"]
    ELSE PalExecExchange(p, x, cmd,
             AppendReply(p.inbox, ServerReply(x.reply, x.id, x.rtype, x.payload)))

\* send_command() after "if not self.socket:"; c is the client then, with the
\* implicit connect's record in c.last
PalSendCommandOn(c, cmd) ==
    IF pal.socket = 0 /\ c.last.ret = "False"
    THEN pal' = [c EXCEPT !.last.op = "command", !.last.cmd = cmd,
                          !.last.connRet = "False", !.last.ret = "None"]
    ELSE \E x \in PalExecEnvs(c.inbox) :
            pal' = PalSendRconCommand(
                      [c EXCEPT !.last.op = "command", !.last.cmd = cmd,
                                !.last.connRet = IF pal.socket = 0 THEN c.last.ret ELSE "none",
                                !.last.ret = "None"],
                      x, cmd)

\* PalworldRconClient.send_command
PalSendCommand ==
    /\ client = "PalworldRconClient"
    /\ pal.socket = 0 => pal.nsock < MaxSockets
    /\ \E cmd \in CommandTexts :
        IF pal.socket = 0
        THEN \E e \in PalConnectEnvs(pal) : PalSendCommandOn(PalConnectCall(pal, e), cmd)
        ELSE PalSendCommandOn(
                [pal EXCEPT !.last = [palLastIdle EXCEPT !.hadSocket = TRUE,
                                         !.peak = Cardinality(pal.sockOpen),
                                         !.used = pal.socket]],
                cmd)
    /\ UNCHANGED <<client, vi, fr, mc>>
    /\ UNCHANGED hostVars
    /\ UNCHANGED rconVars

---------------------------------------------------------------------------
(* MinecraftPing.ping and _send_rcon_command (modules/minecraft/lifecycle.py). *)

\* json.loads(bytes.decode("utf-8")) for documents over the bytes '1', '{', '}' and
\* 0xFF: a run of 1s is a number, {} is an object, 0xFF is not UTF-8, everything
\* else is not JSON.  The value is named by the document's text.
JsonBytes == {49, 123, 125, 255}

JsonLoads(b) ==
    IF b # << >> /\ \A i \in 1 .. Len(b) : b[i] = 49 THEN [ok |-> TRUE, value |-> b]
    ELSE IF b = << 123, 125 >> THEN [ok |-> TRUE, value |-> b]
    ELSE [ok |-> FALSE, value |-> << >>]

\* MinecraftPing._parse_response: ok = FALSE is None
ParseResponse(data) ==
    LET none == [ok |-> FALSE, value |-> << >>]
        v1 == ReadVarint(data, 0)
    IN  IF v1.exc THEN none
        \* a length of 2^31 or more is longer than any data held
        ELSE IF v1.big \/ Len(data) < v1.offset + v1.value THEN none
        ELSE LET v2 == ReadVarint(data, v1.offset)
             IN  IF v2.exc THEN none
                 ELSE IF v2.big \/ v2.value # 0 THEN none
                 ELSE LET v3 == ReadVarint(data, v2.offset)
                      IN  IF v3.exc THEN none
                          ELSE IF v3.big THEN JsonLoads(Slice(data, v3.offset, Len(data)))
                          ELSE JsonLoads(Slice(data, v3.offset, v3.offset + v3.value))

\* a receive loop that keeps only the bytes of the last recv
AccumulateLastOnly(data, chunk) == chunk

\* "data += chunk"
Accumulate(data, chunk) == data \o chunk

\* the receive loop of ping: [ret ("status" or "None"), value, closed, st]
RECURSIVE PingLoop(_, _)
PingLoop(s, data) ==
    LET r == Recv(s, 4096)
    IN  IF r.exc # "none"
        \* socket.timeout / OSError: "return None" in the handler, no close
        THEN [ret |-> "None", value |-> << >>, closed |-> FALSE, st |-> r.st]
        ELSE IF r.data = << >>
        THEN [ret |-> "None", value |-> << >>, closed |-> TRUE, st |-> r.st]
        ELSE LET parsed == ParseResponse(Accumulate(data, r.data))
             IN  IF parsed.ok
                 THEN [ret |-> "status", value |-> parsed.value, closed |-> TRUE, st |-> r.st]
                 ELSE PingLoop(r.st, Accumulate(data, r.data))

\* struct.pack(">H", port)
PackU16BE(port) == << port \div 256, port % 256 >>

\* a ping that writes the Status Request before the Handshake
PingRequestStatusFirst(host, port) ==
    LET handshake_data == EncodeVarint(0) \o EncodeVarint(-1) \o EncodeVarint(Len(host))
                          \o host \o PackU16BE(port) \o EncodeVarint(1)
    IN  << EncodeVarint(1) \o EncodeVarint(0),
           EncodeVarint(Len(handshake_data)) \o handshake_data >>

\* the two frames ping writes
PingRequest(host, port) ==
    LET handshake_data == EncodeVarint(0) \o EncodeVarint(-1) \o EncodeVarint(Len(host))
                          \o host \o PackU16BE(port) \o EncodeVarint(1)
    IN  << EncodeVarint(Len(handshake_data)) \o handshake_data,
           EncodeVarint(1) \o EncodeVarint(0) >>

\* the status response frame a server writes for the JSON document doc
StatusFrame(doc) ==
    LET inner == EncodeVarint(0) \o EncodeVarint(Len(doc)) \o doc
    IN  EncodeVarint(Len(inner)) \o inner

PingHost == << 104 >>

mcIdle == [stage |-> "idle", call |-> "none", port |-> 0, env |-> "ok", wire |-> << >>,
           sent |-> 0, cuts |-> {}, end |-> "close", gc |-> FALSE,
           created |-> FALSE, closed |-> FALSE, sockOpen |-> FALSE,
           ret |-> "none", value |-> << >>, frames |-> << >>]

McStream == [chunks |-> SplitAt(SubSeq(mc.wire, 1, mc.sent), mc.cuts, 1), end |-> mc.end]

\* a socket object nothing refers to any more: open until its finalizer runs,
\* which mc.gc says has happened by the time the caller looks
Unreferenced(closed) == IF closed THEN FALSE ELSE ~mc.gc

\* MinecraftPing.ping.  mc.env: "nofd" (socket.socket() raises OSError), "refused",
\* "timeout" (connect raises), "sendfails" (sendall raises), "ok"
Ping ==
    /\ mc.stage = "ready"
    /\ mc.call = "ping"
    /\ LET done == [mc EXCEPT !.stage = "done"]
       IN  IF mc.env = "nofd"
           THEN mc' = [done EXCEPT !.ret = "None"]
           ELSE IF mc.port > 65535
           \* connect() raises OverflowError, which the handler does not name
           THEN mc' = [done EXCEPT !.created = TRUE, !.sockOpen = Unreferenced(FALSE),
                                   !.ret = "raised"]
           ELSE IF mc.env \in {"refused", "timeout"}
           THEN mc' = [done EXCEPT !.created = TRUE, !.sockOpen = Unreferenced(FALSE),
                                   !.ret = "None"]
           ELSE IF mc.env = "sendfails"
           THEN mc' = [done EXCEPT !.created = TRUE, !.sockOpen = Unreferenced(FALSE),
                                   !.ret = "None"]
           ELSE LET r == PingLoop(McStream, << >>)
                IN  mc' = [done EXCEPT !.created = TRUE, !.closed = r.closed,
                                       !.sockOpen = Unreferenced(r.closed),
                                       !.ret = r.ret, !.value = r.value,
                                       !.frames = PingRequest(PingHost, mc.port)]
    /\ UNCHANGED <<client, vi, fr, pal>>
    /\ UNCHANGED hostVars
    /\ UNCHANGED rconVars

\* _send_rcon_command(host, port, password, command): packets 1 (auth) and 2 (command)
McPack(req_id, pkt_type, payload) ==
    LET data == PackI32(req_id) \o PackI32(pkt_type) \o EncodeUtf8(payload) \o << 0, 0 >>
    IN  PackI32(Len(data)) \o data

SendRconCommand ==
    /\ mc.stage = "ready"
    /\ mc.call = "rcon"
    /\ LET done == [mc EXCEPT !.stage = "done", !.created = TRUE]
           leak == [done EXCEPT !.sockOpen = Unreferenced(FALSE), !.ret = "raised"]
           cmd  == CHOOSE c \in CommandTexts : TRUE
           auth == McPack(1, SERVERDATA_AUTH, PasswordBytes)
       IN  IF mc.env = "nofd" THEN mc' = [mc EXCEPT !.stage = "done", !.ret = "raised"]
           ELSE IF mc.env \in {"refused", "timeout", "sendfails"} THEN mc' = leak
           ELSE LET a == McRead(McStream)
                IN  IF a.exc # "none" THEN mc' = [leak EXCEPT !.frames = << auth >>]
                    ELSE IF a.id = -1
                    THEN mc' = [done EXCEPT !.closed = TRUE, !.ret = "raised",
                                            !.frames = << auth >>]
                    ELSE LET r == McRead(a.st)
                             both == << auth, McPack(2, SERVERDATA_EXECCOMMAND, cmd) >>
                         IN  IF r.exc # "none" THEN mc' = [leak EXCEPT !.frames = both]
                             ELSE mc' = [done EXCEPT !.closed = TRUE, !.ret = "text",
                                                     !.value = r.payload, !.frames = both]
    /\ UNCHANGED <<client, vi, fr, pal>>
    /\ UNCHANGED hostVars
    /\ UNCHANGED rconVars

\* the calls and server behaviours the two functions are run against
McEnvs == {"nofd", "refused", "timeout", "sendfails", "ok"}

McWires(call) ==
    IF call = "ping"
    THEN {StatusFrame(d) : d \in {<< 123, 125 >>, << 49, 49 >>, << 123 >>, << 255 >>}}
         \* a frame of another packet id, and a frame whose outer length (3) ends
         \* before the document its inner length (2) announces
         \cup {<< 1, 1 >>, << 3, 0, 2, 49, 49 >>}
    ELSE {SendPacket(i, SERVERDATA_AUTH_RESPONSE, << >>)
            \o SendPacket(2, SERVERDATA_RESPONSE_VALUE, p) : i \in {1, -1}, p \in ReplyPayloads}

McInit ==
    \E c \in {"ping", "rcon"}, pt \in {25565, 70000}, e \in McEnvs, g \in BOOLEAN :
        \E w \in McWires(c), z \in {"close", "timeout", "error"} :
            \E n \in 0 .. Len(w) :
                \E k \in CutSets(n) :
                    /\ (e # "ok") => (w = CHOOSE x \in McWires(c) : TRUE) /\ n = 0 /\ z = "close"
                    /\ (c = "rcon") => pt = 25565
                    /\ mc = [mcIdle EXCEPT !.stage = "ready", !.call = c, !.port = pt,
                                           !.env = e, !.wire = w, !.sent = n, !.cuts = k,
                                           !.end = z, !.gc = g]

---------------------------------------------------------------------------
(* The plugin entry points: compose_manager.main, the template module's    *)
(* main, and the __main__ blocks of the minecraft and palworld modules.     *)

Dispatchers == {"compose", "template", "minecraft", "palworld"}

\* the registries: _FUNCTIONS, FUNCTIONS, FUNCTIONS and palworld's if/elif chain
Registry(which) ==
    IF which = "compose"
    THEN {"start", "stop", "cleanup", "status", "container_stats", "shutdown_all",
          "enrich_server_info", "get_logs", "pre_create", "provision",
          "regenerate_compose"}
    ELSE IF which = "template"
    THEN {"validate", "get_launch_command", "status", "stop", "configure",
          "read_properties", "diagnose_log"}
    ELSE IF which = "minecraft"
    THEN {"start", "stop", "status", "command", "validate", "get_launch_command",
          "configure", "read_properties", "accept_eula", "diagnose_log",
          "list_versions", "get_version_details", "install_server"}
    ELSE {"start", "stop", "status", "command"}

\* a dispatcher that takes every name for a registered one
RegisteredAny(which, name) == TRUE

\* the registry lookup
Registered(which, name) == name \in Registry(which)

\* the config texts tried: {} , {"wsl2_mode": true}, [], ["wsl2_mode"], "x", 1, null,
\* the text {bad, the empty text and a blank
ConfigTexts == {"{}", "{wsl2_mode}", "[]", "[wsl2_mode]", "string", "number", "null",
                "{bad", "", "blank"}

\* json.loads(text): ok = FALSE is JSONDecodeError; value names the parsed value
JsonConfig(text) ==
    IF text \in {"{bad", "", "blank"} THEN [ok |-> FALSE, value |-> "none"]
    ELSE [ok |-> TRUE, value |-> text]

IsJsonObject(value) == value \in {"{}", "{wsl2_mode}"}

\* '"wsl2_mode" in config': TypeError for a number and for null
ContainsRaises(value) == value \in {"number", "null"}
ContainsWsl2(value) == value \in {"{wsl2_mode}", "[wsl2_mode]"}
\* 'config["wsl2_mode"]': TypeError for a list
SubscriptRaises(value) == value = "[wsl2_mode]"

\* what the called handler does: return a result, or raise
HandlerBehaviours == {"returns", "fails", "raises"}

dpIdle == [stage |-> "idle", which |-> "none", argc |-> 0, name |-> "", input |-> "",
           handler |-> "returns", calls |-> << >>, out |-> << >>, exit |-> "none",
           raised |-> FALSE, wsl2 |-> FALSE]

\* one JSON object written to standard output
ErrorObject(text) == [shape |-> "error", text |-> text]
ResultObject(h) == [shape |-> IF h = "fails" THEN "failure" ELSE "result", text |-> "handler"]

\* how a run ends
Exits(d, code, obj) == [d EXCEPT !.stage = "done", !.exit = code, !.out = Append(d.out, obj)]
Uncaught(d) == [d EXCEPT !.stage = "done", !.exit = "uncaught"]
Calls(d, value, parsed) ==
    [d EXCEPT !.calls = Append(d.calls, [config |-> value, parsed |-> parsed]),
              !.raised = (d.handler = "raises")]

\* compose_manager.main from "config_str = sys.stdin.read()" on
ComposeRun(d) ==
    LET c == JsonConfig(d.input)
    IN  IF ~c.ok THEN Exits(d, "1", ErrorObject("Invalid JSON config"))
        ELSE IF ContainsRaises(c.value) THEN Uncaught(d)
        ELSE IF ContainsWsl2(c.value) /\ SubscriptRaises(c.value) THEN Uncaught(d)
        ELSE LET m == [d EXCEPT !.wsl2 = IF ContainsWsl2(c.value) THEN TRUE ELSE d.wsl2]
                 called == Calls(m, c.value, TRUE)
             IN  IF d.handler = "raises" THEN Uncaught(called)
                 ELSE Exits(called, "0", ResultObject(d.handler))

ComposeMain ==
    /\ dp.stage = "ready"
    /\ dp.which = "compose"
    /\ dp' = IF dp.argc < 1 THEN Exits(dp, "1", ErrorObject("No function specified"))
             ELSE IF ~Registered("compose", dp.name)
             THEN Exits(dp, "1", ErrorObject("Unknown function"))
             ELSE ComposeRun(dp)
    /\ UNCHANGED <<client, vi, fr, pal, mc, pv, lc>>
    /\ UNCHANGED rconVars

\* the template module's main from "config_str = sys.stdin.read()" on
TemplateRun(d) ==
    LET c == JsonConfig(d.input)
        \* an empty or blank text, and a text that does not parse, become {}
        value == IF d.input \in {"", "blank"} \/ ~c.ok THEN "{}" ELSE c.value
        called == Calls(d, value, c.ok)
    IN  IF d.handler = "raises" THEN Exits(called, "1", ErrorObject("Error in handler"))
        ELSE Exits(called, "0", ResultObject(d.handler))

TemplateMain ==
    /\ dp.stage = "ready"
    /\ dp.which = "template"
    /\ dp' = IF dp.argc < 1 THEN Exits(dp, "1", ErrorObject("Usage"))
             ELSE IF ~Registered("template", dp.name)
             THEN Exits(dp, "1", ErrorObject("Unknown function"))
             ELSE TemplateRun(dp)
    /\ UNCHANGED <<client, vi, fr, pal, mc, pv, lc>>
    /\ UNCHANGED rconVars

\* the __main__ block of the minecraft module and of the palworld module: the
\* config is argv[2]
ArgvRun(d) ==
    LET c == JsonConfig(d.input)
    IN  IF d.argc < 2 THEN Exits(d, "1", ErrorObject("Usage"))
        ELSE IF ~c.ok THEN Exits(d, "1", ErrorObject("Invalid JSON config"))
        ELSE IF ~Registered(d.which, d.name)
        THEN Exits(d, "0", ErrorObject("Unknown function"))
        ELSE LET called == Calls(d, c.value, TRUE)
             IN  IF d.handler = "raises" THEN Uncaught(called)
                 ELSE Exits(called, "0", ResultObject(d.handler))

MinecraftMain ==
    /\ dp.stage = "ready"
    /\ dp.which = "minecraft"
    /\ dp' = ArgvRun(dp)
    /\ UNCHANGED <<client, vi, fr, pal, mc, pv, lc>>
    /\ UNCHANGED rconVars

PalworldMain ==
    /\ dp.stage = "ready"
    /\ dp.which = "palworld"
    /\ dp' = ArgvRun(dp)
    /\ UNCHANGED <<client, vi, fr, pal, mc, pv, lc>>
    /\ UNCHANGED rconVars

\* the operation names tried
OpNames == {"start", "validate", "provision", "bogus"}

DispatchInit ==
    \E w \in Dispatchers, n \in 0 .. 2, f \in OpNames, t \in ConfigTexts,
       h \in HandlerBehaviours, g \in BOOLEAN :
        /\ (n = 0) => f = "start"
        /\ (w # "compose") => ~g
        /\ dp = [dpIdle EXCEPT !.stage = "ready", !.which = w, !.argc = n, !.name = f,
                               !.input = t, !.handler = h, !.wsl2 = g]

---------------------------------------------------------------------------
(* compose_manager.provision: engine readiness, asset install, compose     *)
(* generation.  docker_engine._ensure_inner and steamcmd.install are not    *)
(* part of the sources at hand: they are taken as the steps the design      *)
(* describes, each returning a result.                                      *)

\* what docker_engine._ensure_inner returns: daemon_ready, wsl_mode, message
EngineResults ==
    {[daemon_ready |-> TRUE,  wsl_mode |-> FALSE, message |-> "none"],
     [daemon_ready |-> TRUE,  wsl_mode |-> TRUE,  message |-> "none"],
     [daemon_ready |-> FALSE, wsl_mode |-> FALSE, message |-> "daemon down"],
     [daemon_ready |-> FALSE, wsl_mode |-> FALSE, message |-> "none"]}

\* what steamcmd.install does: return success, return a failure with an "error"
\* or with a "message" or with neither, or raise
InstallResults ==
    {[raises |-> FALSE, success |-> TRUE,  error |-> "none", message |-> "none"],
     [raises |-> FALSE, success |-> FALSE, error |-> "app not found", message |-> "failed"],
     [raises |-> FALSE, success |-> FALSE, error |-> "none", message |-> "failed"],
     [raises |-> FALSE, success |-> FALSE, error |-> "none", message |-> "none"],
     [raises |-> TRUE,  success |-> FALSE, error |-> "no steamcmd.py", message |-> "none"]}

\* module_config.install: method steamcmd with an app id, without one, or another
InstallConfigs == {"steamcmd", "steamcmd no app_id", "other"}

\* the file system calls: os.makedirs, open(compose_path, "w"), f.write(yaml)
MakedirsOutcomes == {"ok", "OSError"}
WriteOutcomes == {"ok", "open fails", "write fails"}

\* docker-compose.yml: absent, as some earlier hand left it, or opened and not written
NoFile == [exists |-> FALSE, lines |-> << >>]
OldFile == [exists |-> TRUE, lines |-> << "old" >>]
EmptyFile == [exists |-> TRUE, lines |-> << >>]

\* _progress(percent, message): the line written to stderr, the sentinel and
\* json.dumps of the dictionary with the two keys
Progress(percent, message) ==
    [sentinel |-> "PROGRESS:", json |-> [percent |-> percent, message |-> message]]

pvIdle == [pc |-> "idle", engine |-> CHOOSE e \in EngineResults : TRUE,
           installConfig |-> "other", install |-> CHOOSE i \in InstallResults : TRUE,
           makedirs |-> "ok", image |-> FALSE, write |-> "ok",
           wsl2 |-> FALSE, platform |-> "none", events |-> << >>, failedAt |-> "none",
           serverDir |-> FALSE, installed |-> FALSE, compose0 |-> NoFile,
           compose |-> NoFile,
           fn |-> "provision", run |-> 1, system |-> "Linux", override |-> "absent",
           imageText |-> "img", port |-> "none", progress |-> << >>,
           ret |-> [kind |-> "none", success |-> FALSE, error |-> << >>]]

\* the dictionaries provision returns, the error an f-string of its parts
Failure(parts) == [kind |-> "result", success |-> FALSE, error |-> parts]
Success == [kind |-> "result", success |-> TRUE, error |-> << >>]
Raised == [kind |-> "raised", success |-> FALSE, error |-> << >>]

\* dict.get(key, default)
GetOr(value, default) == IF value = "none" THEN default ELSE value

\* a provision that goes on whatever the engine reported
EngineFailedNever(e) == FALSE

\* "if not engine_result.get('daemon_ready', False)"
EngineFailed(e) == ~e.daemon_ready

\* an engine step that leaves the mode as it found it
EngineSelectsWsl2Never(p) == p.wsl2

\* "if engine_result.get('wsl_mode', False): _set_wsl2_mode(True)": _wsl2_mode after it
EngineSelectsWsl2(p) == IF p.engine.wsl_mode THEN TRUE ELSE p.wsl2

\* Step 0: Docker engine
ProvisionEngine ==
    /\ pv.pc = "engine"
    /\ LET seen == [pv EXCEPT !.events = Append(pv.events, "engine"),
                              !.progress = Append(pv.progress,
                                                  Progress(0, "Checking Docker Engine..."))]
       IN  pv' = IF EngineFailed(pv.engine)
                 THEN [seen EXCEPT !.pc = "done", !.failedAt = "engine",
                                   !.ret = Failure(<< "Docker unavailable: ",
                                                      GetOr(pv.engine.message, "unknown") >>)]
                 ELSE [seen EXCEPT !.pc = "install",
                                   !.wsl2 = EngineSelectsWsl2(pv),
                                   !.progress = Append(seen.progress,
                                                       Progress(33, "Docker Engine ready"))]
    /\ UNCHANGED <<client, vi, fr, pal, mc, dp, lc>>
    /\ UNCHANGED rconVars

\* the error of a failed install: result.get('error', result.get('message', 'unknown'))
InstallError(r) == GetOr(r.error, GetOr(r.message, "unknown"))

\* steamcmd.install(steamcmd_config) and what provision makes of it
InstallStep(p) ==
    LET called == [p EXCEPT !.events = Append(p.events, "install"),
                            !.platform = IF p.wsl2 THEN "linux" ELSE "config",
                            !.progress = Append(p.progress,
                                                Progress(40, "Downloading server files"))]
    IN  IF p.install.raises
        THEN [called EXCEPT !.pc = "done", !.failedAt = "install",
                            !.ret = Failure(<< "SteamCMD run failed: ", p.install.error >>)]
        ELSE IF ~p.install.success
        THEN [called EXCEPT !.pc = "done", !.failedAt = "install",
                            !.ret = Failure(<< "SteamCMD install failed: ",
                                               InstallError(p.install) >>)]
        ELSE [called EXCEPT !.pc = "compose", !.installed = TRUE,
                            !.progress = Append(called.progress,
                                                Progress(66, "Server files ready"))]

\* Step 1: the server directory and the server files
ProvisionInstall ==
    /\ pv.pc = "install"
    /\ LET tried == [pv EXCEPT !.events = Append(pv.events, "makedirs")]
           made  == [tried EXCEPT !.serverDir = TRUE]
       IN  pv' = IF pv.makedirs = "OSError"
                 THEN [tried EXCEPT !.pc = "done", !.failedAt = "install", !.ret = Raised]
                 ELSE IF pv.installConfig = "steamcmd" THEN InstallStep(made)
                 ELSE [made EXCEPT !.pc = "compose",
                                   !.progress = Append(made.progress,
                                                       Progress(66, "Server files ready"))]
    /\ UNCHANGED <<client, vi, fr, pal, mc, dp, lc>>
    /\ UNCHANGED rconVars

\* _resolve_template for the templates of the model: {port} is replaced when
\* the instance has a port
ResolveTemplate(template, port) ==
    IF template = "img:{port}" /\ port # "none" THEN "img:25565" ELSE template

\* _generate_compose_yaml(docker_section, instance_data): the lines of the file,
\* for a docker section with an image only
GenerateComposeYaml(p) ==
    << "services:", "  module:", "    image: ", ResolveTemplate(p.imageText, p.port),
       "    container_name: saba-module-instance", "    restart: unless-stopped",
       "    stdin_open: true", "    tty: true" >>

\* a file opened for appending
ComposeFileAppended(p) ==
    IF p.write = "open fails" THEN p.compose
    ELSE IF p.write = "write fails" THEN p.compose
    ELSE [exists |-> TRUE, lines |-> p.compose.lines \o GenerateComposeYaml(p)]

\* 'with open(compose_path, "w") as f: f.write(yaml)': the file afterwards; open
\* truncates it
ComposeFileAfter(p) ==
    IF p.write = "open fails" THEN p.compose
    ELSE IF p.write = "write fails" THEN EmptyFile
    ELSE [exists |-> TRUE, lines |-> GenerateComposeYaml(p)]

\* a provision that reports 100 before it writes the file
WriteComposeProgressFirst(p) ==
    LET opened == [p EXCEPT !.events = Append(p.events, "write"),
                            !.compose = ComposeFileAfter(p),
                            !.progress = Append(p.progress,
                                                Progress(100, "docker-compose.yml generated"))]
    IN  IF p.write # "ok"
        THEN [opened EXCEPT !.pc = "done", !.failedAt = "compose", !.ret = Raised]
        ELSE [opened EXCEPT !.pc = "done", !.ret = Success]

\* provision from "instance_data = ..." on: the file written, then 100 reported
WriteCompose(p) ==
    LET opened == [p EXCEPT !.events = Append(p.events, "write"),
                            !.compose = ComposeFileAfter(p)]
    IN  IF p.write # "ok"
        THEN [opened EXCEPT !.pc = "done", !.failedAt = "compose", !.ret = Raised]
        ELSE [opened EXCEPT !.pc = "done", !.ret = Success,
                            !.progress = Append(p.progress,
                                                Progress(100, "docker-compose.yml generated"))]

\* a provision that opens docker-compose.yml for writing before it looks for the image
NoImageAfterOpen(p) ==
    [p EXCEPT !.pc = "done", !.failedAt = "compose", !.compose = EmptyFile,
              !.ret = Failure(<< "no [docker] image" >>)]

\* "if not docker_section.get('image')": the failure returned, nothing touched
NoImage(p) ==
    [p EXCEPT !.pc = "done", !.failedAt = "compose",
              !.ret = Failure(<< "no [docker] image" >>)]

\* Step 2: docker-compose.yml
ProvisionCompose ==
    /\ pv.pc = "compose"
    /\ LET told == [pv EXCEPT !.progress = Append(pv.progress,
                                  Progress(80, "Generating docker-compose.yml..."))]
       IN  pv' = IF ~pv.image THEN NoImage(told) ELSE WriteCompose(told)
    /\ UNCHANGED <<client, vi, fr, pal, mc, dp, lc>>
    /\ UNCHANGED rconVars

\* the configs, the files found and the outcomes provision is run against
ProvisionInit ==
    \E e \in EngineResults, ic \in InstallConfigs, i \in InstallResults,
       m \in MakedirsOutcomes, w \in WriteOutcomes :
        \E img \in BOOLEAN, g \in BOOLEAN, d \in BOOLEAN, c \in {NoFile, OldFile} :
            /\ (ic # "steamcmd") => i = CHOOSE x \in InstallResults : x.success
            /\ d => m = "ok"
            /\ (c = OldFile) => d
            /\ pv = [pvIdle EXCEPT !.pc = "engine", !.engine = e, !.installConfig = ic,
                                   !.install = i, !.makedirs = m, !.image = img,
                                   !.write = w, !.wsl2 = g, !.serverDir = d,
                                   !.compose0 = c, !.compose = c,
                                   !.system = IF g THEN "Windows" ELSE "Linux"]

lcIdle == [fn |-> "none", stage |-> "idle"]

HostIdle == dp = dpIdle /\ pv = pvIdle /\ lc = lcIdle

---------------------------------------------------------------------------
(* rcon_command: the one-shot helper of extensions/rcon.py. *)

\* a "finally" clause that does not disconnect
RconCommandNoFinally(c) == c.sockOpen

\* "finally: client.disconnect()": _cleanup closes the socket the client holds
RconCommandFinally(c) == c.sockOpen \ {c.socket}

\* what rcon_command does with the two results: it raises ConnectionError when
\* connect() is falsy or command() is None, else it returns the response
RconCommandRet(c, r) ==
    IF ~c.ret \/ r.ret = "None" THEN "raised ConnectionError" ELSE "text"

\* rcon_command at its exit: c is its client after connect(), r what command()
\* returned (NotConnected when it was not called)
RconCommandDone(c, cmd, r) ==
    /\ socket' = 0
    /\ authenticated' = FALSE
    /\ sockOpen' = RconCommandFinally(c)
    /\ nsock' = c.nsock
    /\ inbox' = NoStream
    /\ last' = [CommandRecord(c, cmd, r) EXCEPT !.op = "rcon_command",
                                                 !.ret = RconCommandRet(c, r)]

\* rcon_command(host, port, password, command): a client of its own, connect,
\* command, and disconnect on every way out
RconCommand ==
    /\ client = "rcon_command"
    /\ nsock < MaxSockets
    /\ \E cmd \in CommandTexts, e \in ConnectEnvs :
        IF ~ConnectCall(Self, e).ret
        THEN RconCommandDone(ConnectCall(Self, e), cmd, NotConnected(ConnectCall(Self, e)))
        ELSE \E x \in ExecEnvs(ConnectCall(Self, e).inbox) :
                RconCommandDone(ConnectCall(Self, e), cmd,
                                ExecCall(ConnectCall(Self, e).socket,
                                         ConnectCall(Self, e).inbox, x, cmd))
    /\ UNCHANGED <<client, password, vi, fr, pal, mc>>
    /\ UNCHANGED hostVars

---------------------------------------------------------------------------
(* stop (modules/minecraft/lifecycle.py). *)

\* "for _ in range(30)": the number of liveness polls after the RCON stop
MaxPolls == 30

\* what stop() is called with and what its surroundings do: config["pid"] is set,
\* config["force"], config["rcon_password"] is non-empty, _send_rcon_command
\* returns or raises, the round in which os.kill(pid, 0) raises OSError (0: in
\* none), sys.platform, and whether the final taskkill or os.kill fails
StopInputs ==
    [pid : BOOLEAN, force : BOOLEAN, rcon_password : BOOLEAN, rcon : {"ok", "raises"},
     goneAt : 0 .. MaxPolls, platform : {"win32", "posix"}, kill : {"ok", "fails"}]

stIdle == [fn |-> "stop", stage |-> "ready", events |-> << >>, ret |-> "none",
           message |-> "none"]

\* a loop that gives up after its first round
StopPollOnce(i, goneAt) ==
    IF i > 1 THEN << >>
    ELSE IF i = goneAt THEN << "poll gone" >>
    ELSE << "poll alive" >>

\* the loop "for _ in range(30)" from round i on: sleep, then os.kill(pid, 0);
\* an OSError ends the loop (and the call)
RECURSIVE StopPoll(_, _)
StopPoll(i, goneAt) ==
    IF i > MaxPolls THEN << >>
    ELSE IF i = goneAt THEN << "poll gone" >>
    ELSE << "poll alive" >> \o StopPoll(i + 1, goneAt)

\* the block under "if not force:": what it did, and whether it returned
StopGraceful(c) ==
    IF c.force \/ ~c.rcon_password THEN [events |-> << >>, returned |-> FALSE]
    ELSE IF c.rcon = "raises" THEN [events |-> << "rcon stop raised" >>, returned |-> FALSE]
    ELSE [events |-> << "rcon stop" >> \o StopPoll(1, c.goneAt),
          returned |-> c.goneAt \in 1 .. MaxPolls]

\* the forced end of stop(): taskkill /F on win32, else SIGKILL or SIGTERM
StopKill(c) ==
    IF c.platform = "win32"
    THEN [events |-> << "taskkill" >>,
          ret |-> IF c.kill = "ok" THEN "success" ELSE "failure",
          message |-> IF c.kill = "ok" THEN "messages.force_killed" ELSE "errors.failed_to_kill"]
    ELSE [events |-> << IF c.force THEN "SIGKILL" ELSE "SIGTERM" >>,
          ret |-> IF c.kill = "ok" THEN "success" ELSE "failure",
          message |-> IF c.kill = "ok" THEN "messages.signal_sent" ELSE "errors.failed_to_stop"]

\* stop(config)
StopCall(c) ==
    IF ~c.pid
    THEN [c EXCEPT !.stage = "done", !.ret = "failure", !.message = "errors.no_pid_provided"]
    ELSE IF StopGraceful(c).returned
    THEN [c EXCEPT !.stage = "done", !.events = StopGraceful(c).events,
                   !.ret = "success", !.message = "messages.graceful_stop"]
    ELSE [c EXCEPT !.stage = "done", !.events = StopGraceful(c).events \o StopKill(c).events,
                   !.ret = StopKill(c).ret, !.message = StopKill(c).message]

Stop ==
    /\ lc.fn = "stop"
    /\ lc.stage = "ready"
    /\ lc' = StopCall(lc)
    /\ UNCHANGED <<client, vi, fr, pal, mc, dp, pv>>
    /\ UNCHANGED rconVars

StopInit ==
    \E c \in StopInputs :
        lc = stIdle @@ c

---------------------------------------------------------------------------
(* command (modules/palworld/lifecycle.py). *)

\* what command() is called with and what the REST API does: config["command"]
\* ("" when missing), args["message"] and a player id in args are non-empty,
\* args["seconds"] is a number, and a request of the REST client returns or raises
PalCommandInputs ==
    [command : {"", "say", "broadcast", "shutdown", "info", "kick", "save"},
     hasMessage : BOOLEAN, hasUserid : BOOLEAN, seconds : {"int", "text"},
     restApi : {"ok", "raises"}]

pcIdle == [fn |-> "command", stage |-> "ready", events |-> << >>, rest |-> "not reached",
           ret |-> "none", message |-> "none"]

\* the returns of command() before execute_via_rest: "none" when there is none
PalCommandEarly(c) ==
    IF c.command = "" THEN "No command specified"
    ELSE IF c.command \in {"say", "broadcast"} /\ ~c.hasMessage THEN "Message parameter required"
    \* int(args.get("seconds", 10)) raises ValueError: the outer handler
    ELSE IF c.command = "shutdown" /\ c.seconds = "text" THEN "Failed to execute command"
    ELSE "none"

\* execute_via_rest(): "success", "failure" (a request raised, or a parameter is
\* missing), or "none" for a command the REST API has no endpoint for
ExecuteViaRest(c) ==
    IF c.command \in {"say", "broadcast", "info"}
    THEN (IF c.restApi = "ok" THEN "success" ELSE "failure")
    ELSE IF c.command = "kick"
    THEN (IF ~c.hasUserid THEN "failure" ELSE IF c.restApi = "ok" THEN "success" ELSE "failure")
    ELSE "none"

\* a command() that goes on to RCON whatever REST returned
RestDeliveredNever(rest_result) == FALSE

\* "if rest_result and rest_result.get("success")"
RestDelivered(rest_result) == rest_result = "success"

\* the text sent over RCON: formatted_command, as one letter per command
FormattedCommand(c) ==
    IF c.command = "shutdown" THEN << 83 >>
    ELSE IF c.command = "broadcast" THEN << 66 >>
    ELSE IF c.command = "say" THEN << 115 >>
    ELSE << 108 >>

\* rcon.disconnect() on the client p
PalClosed(p) == [p EXCEPT !.sockOpen = p.sockOpen \ {p.socket}]

\* command() from "if rcon.connect():" on with the client k after connect() and,
\* when connect() returned True, s after send_command() and disconnect()
PalCommandAck(c, rest, k) ==
    /\ pal' = k
    /\ lc' = [c EXCEPT !.stage = "done", !.rest = rest,
                       !.events = << "rest", "rcon", "acknowledge" >>,
                       !.ret = "success", !.message = "Command acknowledged"]

PalCommandSent(c, rest, s) ==
    IF s.last.ret # "None"
    THEN /\ pal' = PalClosed(s)
         /\ lc' = [c EXCEPT !.stage = "done", !.rest = rest,
                            !.events = << "rest", "rcon" >>,
                            !.ret = "success", !.message = "Command executed via RCON"]
    ELSE PalCommandAck(c, rest, PalClosed(s))

PalCommandRcon(c, rest, k) ==
    IF k.last.ret # "True" THEN PalCommandAck(c, rest, k)
    ELSE \E x \in PalExecEnvs(k.inbox) :
            PalCommandSent(c, rest,
                PalSendRconCommand([k EXCEPT !.last.op = "command",
                                             !.last.cmd = FormattedCommand(c),
                                             !.last.connRet = "True",
                                             !.last.ret = "None"],
                                   x, FormattedCommand(c)))

\* command(config)
PalCommand ==
    /\ client = "palworld command"
    /\ lc.fn = "command"
    /\ lc.stage = "ready"
    /\ IF PalCommandEarly(lc) # "none"
       THEN /\ lc' = [lc EXCEPT !.stage = "done", !.ret = "failure",
                                !.message = PalCommandEarly(lc)]
            /\ pal' = pal
       ELSE IF RestDelivered(ExecuteViaRest(lc))
       THEN /\ lc' = [lc EXCEPT !.stage = "done", !.rest = "success",
                                !.events = << "rest" >>, !.ret = "success",
                                !.message = "via REST"]
            /\ pal' = pal
       ELSE \E e \in PalConnectEnvs(pal) :
               PalCommandRcon(lc, ExecuteViaRest(lc), PalConnectCall(pal, e))
    /\ UNCHANGED <<client, vi, fr, mc, dp, pv>>
    /\ UNCHANGED rconVars

PalCommandInit ==
    \E c \in PalCommandInputs : lc = pcIdle @@ c

---------------------------------------------------------------------------
(* compose_manager: the WSL2 mode, regenerate_compose, and one invocation after another. *)

\* invocations of the extension in one behaviour
MaxRuns == 2

\* a main that does not look at config["wsl2_mode"]
Wsl2AtStartPlatformOnly(system, override) == system = "Windows"

\* _wsl2_mode when a handler starts: the module sets it from platform.system()
\* when it is loaded, and main sets it from config["wsl2_mode"] when that key is there
Wsl2AtStart(system, override) ==
    IF override = "absent" THEN system = "Windows" ELSE override = "true"

\* _docker_cli()
DockerCli(wsl2_mode) ==
    IF wsl2_mode THEN << "wsl", "-u", "root", "--", "/opt/saba-chan/docker/docker" >>
    ELSE << "docker" >>

\* _compose_cli(); local: the portable docker-compose next to the executable exists
ComposeCli(wsl2_mode, local) ==
    IF wsl2_mode
    THEN << "wsl", "-u", "root", "--", "/opt/saba-chan/docker/docker", "compose" >>
    ELSE IF local THEN << "docker/docker-compose" >>
    ELSE << "docker", "compose" >>

\* _compose_cmd(instance_dir)
ComposeCmd(wsl2_mode, local) ==
    ComposeCli(wsl2_mode, local) \o
        (IF wsl2_mode THEN << "-f", "docker-compose.yml" >>
         ELSE << "-f", "instance_dir/docker-compose.yml" >>)

\* regenerate_compose(config)
RegenerateCompose ==
    /\ pv.pc = "regenerate"
    /\ pv' = IF ~pv.image
             THEN [pv EXCEPT !.pc = "done", !.failedAt = "compose",
                             !.ret = Failure(<< "No docker config" >>)]
             ELSE IF pv.write # "ok"
             THEN [pv EXCEPT !.pc = "done", !.failedAt = "compose", !.ret = Raised,
                             !.events = Append(pv.events, "write"),
                             !.compose = ComposeFileAfter(pv)]
             ELSE [pv EXCEPT !.pc = "done", !.ret = Success,
                             !.events = Append(pv.events, "write"),
                             !.compose = ComposeFileAfter(pv)]
    /\ UNCHANGED <<client, vi, fr, pal, mc, dp, lc>>
    /\ UNCHANGED rconVars

\* what one invocation is given: the function named on the command line, the
\* config on stdin, and what the engine, the installer and the file system do
RunInputs ==
    {r \in [fn : {"provision", "regenerate_compose"}, engine : EngineResults,
            installConfig : {"steamcmd", "other"},
            install : {i \in InstallResults : ~i.raises /\ i.error = "none" /\ i.message = "none"},
            write : {"ok", "write fails"}, image : BOOLEAN,
            imageText : {"img", "img:{port}"}, port : {"none", "25565"},
            override : {"absent", "true", "false"}] :
        /\ r.installConfig = "other" => r.install.success
        /\ ~r.image => (r.imageText = "img" /\ r.port = "none")
        /\ r.fn = "regenerate_compose" =>
              /\ r.engine = pvIdle.engine
              /\ r.installConfig = "other"}

\* main() up to "result = func(config)" in a new process on the same machine:
\* files is the state the files were left in
StartRun(r, system, run, files) ==
    [pvIdle EXCEPT !.pc = IF r.fn = "provision" THEN "engine" ELSE "regenerate",
                   !.fn = r.fn, !.run = run, !.system = system, !.override = r.override,
                   !.wsl2 = Wsl2AtStart(system, r.override),
                   !.engine = r.engine, !.installConfig = r.installConfig,
                   !.install = r.install, !.write = r.write, !.image = r.image,
                   !.imageText = r.imageText, !.port = r.port,
                   !.serverDir = files.serverDir, !.installed = files.installed,
                   !.compose0 = files.compose, !.compose = files.compose]

\* the process has exited and the extension is invoked again
Reinvoke ==
    /\ pv.pc = "done"
    /\ pv.run < MaxRuns
    /\ \E r \in RunInputs : pv' = StartRun(r, pv.system, pv.run + 1, pv)
    /\ UNCHANGED <<client, vi, fr, pal, mc, dp, lc>>
    /\ UNCHANGED rconVars

ReprovisionInit ==
    \E r \in RunInputs, s \in {"Windows", "Linux"}, c \in {NoFile, OldFile} :
        pv = StartRun(r, s, 1, [serverDir |-> FALSE, installed |-> FALSE, compose |-> c])

---------------------------------------------------------------------------
(* ServerInstaller.install_server (modules/minecraft/lifecycle.py). *)

\* what install_server finds and what its surroundings do: the jar in the install
\* directory (absent, with the manifest's SHA1, or another), get_version_details
\* (None, a version without a server download, or the download's details), whether
\* the details carry a sha1, os.makedirs, the download (complete, raising in
\* urlopen before the file is opened, raising after it was opened, or complete
\* with other bytes than the manifest's), and os.remove
InstallServerInputs ==
    [jar0 : {"absent", "matching", "other"}, details : {"none", "no server", "ok"},
     expected_sha1 : BOOLEAN, makedirs : {"ok", "OSError"},
     download : {"ok", "urlopen raises", "raises", "other bytes"},
     remove : {"ok", "OSError"}]

isIdle == [fn |-> "install_server", stage |-> "ready", events |-> << >>, jar |-> "absent",
           ret |-> "none", message |-> "none"]

\* a handler that leaves what the download wrote
CleanUpPartialNever(c, file) == file

\* "Clean up partial download": the file at jar_path after the handler of a
\* failed download, which found file there; an OSError of os.remove is ignored
CleanUpPartial(c, file) ==
    IF file = "absent" THEN "absent"
    ELSE IF c.remove = "OSError" THEN file
    ELSE "absent"

\* install_server from "Download with progress" on: urlopen and open(jar_path,
\* "wb"), the partial file removed when that raises, then the SHA1 compared
InstallServerDownload(c) ==
    IF c.download \in {"urlopen raises", "raises"}
    THEN [c EXCEPT !.stage = "done", !.events = << "details", "makedirs", "download" >>,
                   !.jar = CleanUpPartial(c, IF c.download = "raises" THEN "partial" ELSE c.jar),
                   !.ret = "failure", !.message = "Download failed"]
    ELSE IF c.expected_sha1 /\ c.download = "other bytes"
    THEN IF c.remove = "OSError"
         \* os.remove is not guarded here: the exception leaves install_server
         THEN [c EXCEPT !.stage = "done",
                        !.events = << "details", "makedirs", "download", "verify" >>,
                        !.jar = "other", !.ret = "raised"]
         ELSE [c EXCEPT !.stage = "done",
                        !.events = << "details", "makedirs", "download", "verify" >>,
                        !.jar = "absent", !.ret = "failure", !.message = "SHA1 mismatch"]
    ELSE [c EXCEPT !.stage = "done",
                   !.events = << "details", "makedirs", "download", "verify" >>,
                   !.jar = IF c.download = "ok" THEN "matching" ELSE "other",
                   !.ret = "success"]

\* install_server(version_id, install_dir)
InstallServerCall(c) ==
    IF c.details = "none"
    THEN [c EXCEPT !.stage = "done", !.events = << "details" >>, !.ret = "failure",
                   !.message = "not found in Mojang manifest"]
    ELSE IF c.details = "no server"
    THEN [c EXCEPT !.stage = "done", !.events = << "details" >>, !.ret = "failure",
                   !.message = "No server download"]
    ELSE IF c.makedirs = "OSError"
    THEN [c EXCEPT !.stage = "done", !.events = << "details", "makedirs" >>,
                   !.ret = "failure", !.message = "errors.working_dir_error"]
    ELSE InstallServerDownload(c)

InstallServer ==
    /\ lc.fn = "install_server"
    /\ lc.stage = "ready"
    /\ lc' = InstallServerCall(lc)
    /\ UNCHANGED <<client, vi, fr, pal, mc, dp, pv>>
    /\ UNCHANGED rconVars

InstallServerInit ==
    \E c \in InstallServerInputs : lc = [isIdle EXCEPT !.jar = c.jar0] @@ c

---------------------------------------------------------------------------
(* Specifications. *)

RconIdle ==
    /\ socket = 0
    /\ authenticated = FALSE
    /\ sockOpen = {}
    /\ nsock = 0
    /\ inbox = NoStream
    /\ last = lastIdle

\* one RCON session, of either client class, with or without a password
Init ==
    /\ client \in {"RconClient", "PalworldRconClient"}
    /\ password \in BOOLEAN
    /\ RconIdle
    /\ HostIdle
    /\ pal = palInit
    /\ vi = viIdle
    /\ fr = frIdle
    /\ mc = mcIdle

Next ==
    \/ Connect
    \/ Command
    \/ Disconnect
    \/ PalConnect
    \/ PalSendCommand
    \/ PalDisconnect

Spec == Init /\ [][Next]_vars

\* one frame, one reader
InitFrame ==
    /\ FrameInit
    /\ client = "none"
    /\ password = FALSE
    /\ RconIdle
    /\ HostIdle
    /\ pal = palInit
    /\ vi = viIdle
    /\ mc = mcIdle

NextFrame ==
    \/ FrameReadRcon
    \/ FrameReadPalworld
    \/ FrameReadMinecraft

SpecFrame == InitFrame /\ [][NextFrame]_vars

\* one integer, encoded and decoded
InitVarint ==
    /\ \E x \in VarintInputs : vi = [viIdle EXCEPT !.stage = "input", !.n = x]
    /\ client = "none"
    /\ password = FALSE
    /\ RconIdle
    /\ HostIdle
    /\ pal = palInit
    /\ fr = frIdle
    /\ mc = mcIdle

NextVarint ==
    \/ VarintEncode
    \/ VarintDecode

SpecVarint == InitVarint /\ [][NextVarint]_vars

\* one call of MinecraftPing.ping or _send_rcon_command
InitMc ==
    /\ McInit
    /\ client = "none"
    /\ password = FALSE
    /\ RconIdle
    /\ HostIdle
    /\ pal = palInit
    /\ vi = viIdle
    /\ fr = frIdle

NextMc ==
    \/ Ping
    \/ SendRconCommand

SpecMc == InitMc /\ [][NextMc]_vars

\* one run of compose_manager.provision
InitProvision ==
    /\ ProvisionInit
    /\ dp = dpIdle
    /\ lc = lcIdle
    /\ client = "none"
    /\ password = FALSE
    /\ RconIdle
    /\ pal = palInit
    /\ vi = viIdle
    /\ fr = frIdle
    /\ mc = mcIdle

NextProvision ==
    \/ ProvisionEngine
    \/ ProvisionInstall
    \/ ProvisionCompose

SpecProvision == InitProvision /\ [][NextProvision]_vars

\* one run of a plugin entry point
InitDispatch ==
    /\ DispatchInit
    /\ pv = pvIdle
    /\ lc = lcIdle
    /\ client = "none"
    /\ password = FALSE
    /\ RconIdle
    /\ pal = palInit
    /\ vi = viIdle
    /\ fr = frIdle
    /\ mc = mcIdle

NextDispatch ==
    \/ ComposeMain
    \/ TemplateMain
    \/ MinecraftMain
    \/ PalworldMain

SpecDispatch == InitDispatch /\ [][NextDispatch]_vars

\* calls of rcon_command, each with a client of its own
InitOneShot ==
    /\ client = "rcon_command"
    /\ password \in BOOLEAN
    /\ RconIdle
    /\ HostIdle
    /\ pal = palInit
    /\ vi = viIdle
    /\ fr = frIdle
    /\ mc = mcIdle

NextOneShot ==
    \/ RconCommand

SpecOneShot == InitOneShot /\ [][NextOneShot]_vars

\* one call of minecraft's stop
InitStop ==
    /\ StopInit
    /\ dp = dpIdle
    /\ pv = pvIdle
    /\ client = "none"
    /\ password = FALSE
    /\ RconIdle
    /\ pal = palInit
    /\ vi = viIdle
    /\ fr = frIdle
    /\ mc = mcIdle

NextStop ==
    \/ Stop

SpecStop == InitStop /\ [][NextStop]_vars

\* one call of palworld's command
InitPalCommand ==
    /\ PalCommandInit
    /\ dp = dpIdle
    /\ pv = pvIdle
    /\ client = "palworld command"
    /\ password \in BOOLEAN
    /\ RconIdle
    /\ pal = palInit
    /\ vi = viIdle
    /\ fr = frIdle
    /\ mc = mcIdle

NextPalCommand ==
    \/ PalCommand

SpecPalCommand == InitPalCommand /\ [][NextPalCommand]_vars

\* one invocation of compose_manager after another, on the same files
InitReprovision ==
    /\ ReprovisionInit
    /\ dp = dpIdle
    /\ lc = lcIdle
    /\ client = "none"
    /\ password = FALSE
    /\ RconIdle
    /\ pal = palInit
    /\ vi = viIdle
    /\ fr = frIdle
    /\ mc = mcIdle

NextReprovision ==
    \/ ProvisionEngine
    \/ ProvisionInstall
    \/ ProvisionCompose
    \/ RegenerateCompose
    \/ Reinvoke

SpecReprovision == InitReprovision /\ [][NextReprovision]_vars

\* one call of minecraft's install_server
InitInstall ==
    /\ InstallServerInit
    /\ dp = dpIdle
    /\ pv = pvIdle
    /\ client = "none"
    /\ password = FALSE
    /\ RconIdle
    /\ pal = palInit
    /\ vi = viIdle
    /\ fr = frIdle
    /\ mc = mcIdle

NextInstall ==
    \/ InstallServer

SpecInstall == InitInstall /\ [][NextInstall]_vars

---------------------------------------------------------------------------
(* Properties. *)

\* the frame at the head of the byte string w: its declared size, its body, what
\* lies between the 8-byte header and the 2-byte terminator, and what follows it
HeadSize(w) == UnpackI32(SubSeq(w, 1, 4))
HeadBody(w) == SubSeq(w, 5, 4 + HeadSize(w))
HeadPayload(w) == IF HeadSize(w) > 10 THEN SubSeq(w, 13, 4 + HeadSize(w) - 2) ELSE << >>
AfterHead(w) == SubSeq(w, 4 + HeadSize(w) + 1, Len(w))

IsAscii(b) == \A i \in 1 .. Len(b) : b[i] < 128

ExecPacketsOf(sent) == {i \in 1 .. Len(sent) : sent[i].type = SERVERDATA_EXECCOMMAND}

\* C1: RconClient.connect() against a server that rejects the password (the auth
\* response echoes id -1) returns False and leaves no open socket: the socket
\* the call opened is closed and the client holds none.
C1_RejectedConnectLeavesNoSocket ==
    (client = "RconClient" /\ last.op = "connect" /\ last.authKind = "reject")
        => (last.ret = "False" /\ socket = 0 /\ last.opened \notin sockOpen)

\* what a reader's result is when it reports failure
FrameReadFailed ==
    IF fr.reader = "minecraft"
    THEN fr.exc # "none" \/ (fr.pkt.id = -1 /\ fr.pkt.payload = << >>)
    ELSE ~fr.pkt.ok

\* what a reader's result is when it is the packet that was sent
FrameReadWhole ==
    /\ fr.pkt.ok
    /\ fr.pkt.id = fr.id
    /\ fr.pkt.type = fr.type
    /\ fr.pkt.payload = fr.payload

\* C2: however the stream is cut into segments, each of the three packet readers
\* returns the whole packet when the whole frame arrives, and reports failure,
\* never a packet made of part of the frame, when the stream closes before that.
C2_ReadersCollectWholeFrame ==
    fr.stage = "read"
        => /\ FrameComplete => FrameReadWhole
           /\ (~FrameComplete /\ fr.end = "close") => FrameReadFailed

\* C3: for every request id, packet type and payload, RconClient._read_packet
\* applied to the bytes RconClient._send_packet wrote, in whatever segments they
\* arrive, returns that id, type and payload and leaves nothing unread.
C3_SendThenReadIsIdentity ==
    (fr.stage = "read" /\ fr.reader = "rcon" /\ FrameComplete)
        => (FrameReadWhole /\ fr.left = << >>)

C3_Witness ==
    /\ fr.stage = "read"
    /\ fr.reader = "rcon"
    /\ FrameComplete
    /\ fr.id = -1
    /\ fr.payload = << 65, 0 >>
    /\ fr.cuts # {}
    /\ fr.pkt.ok

\* C4: for every 32-bit signed integer n, _read_varint applied to
\* _encode_varint(n) returns n and an offset equal to the encoded length.
C4_VarintRoundTrip ==
    vi.stage = "decoded"
        => /\ ~vi.dec.exc
           /\ ~vi.dec.big
           /\ vi.dec.value = vi.n
           /\ vi.dec.offset = Len(vi.enc)

C4_Witness ==
    /\ vi.stage = "decoded"
    /\ vi.n = -1
    /\ Len(vi.enc) = 5
    /\ vi.dec.value = -1

\* the bytes w received in answer to an Auth packet hold a whole header (length,
\* request id, type) whose request id is not -1
AcceptedAuthHeader(w) == Len(w) >= 12 /\ UnpackI32(SubSeq(w, 5, 8)) # -1

C6_FailedCommandTearsDown ==
    (client = "RconClient" /\ last.op = "command" /\ last.ret = "None"
     /\ last.connRet # "False")
        => (socket = 0 /\ ~authenticated /\ last.used \notin sockOpen)

\* C7: command() on a client that holds no socket calls connect() first, which
\* authenticates when a password is configured; if that connect fails, command()
\* returns None and sends no ExecCommand packet.
C7_CommandConnectsFirst ==
    (client = "RconClient" /\ last.op = "command" /\ ~last.hadSocket)
        => /\ last.connRet \in {"True", "False"}
           /\ (last.connRet = "True" /\ password)
                => (authenticated /\ last.sent[1].type = SERVERDATA_AUTH
                    /\ AcceptedAuthHeader(last.authWire))
           /\ last.connRet = "False"
                => (last.ret = "None" /\ ExecPacketsOf(last.sent) = {})

C7_Witness ==
    /\ client = "RconClient"
    /\ last.op = "command"
    /\ ~last.hadSocket
    /\ last.connRet = "False"
    /\ last.authKind = "reject"
    /\ socket # 0

\* what a successful command() sent and consumed: one ExecCommand packet with the
\* command text, and the first frame of the stream and no byte after it
OneCommandOneFrame ==
    /\ Cardinality(ExecPacketsOf(last.sent)) = 1
    /\ last.sent[Len(last.sent)] =
           [type |-> SERVERDATA_EXECCOMMAND, id |-> last.sent[Len(last.sent)].id,
            payload |-> EncodeUtf8(last.cmd)]
    /\ last.left = AfterHead(last.wire)

SuccessfulCommand == client = "RconClient" /\ last.op = "command" /\ last.ret = "text"

\* C8 as stated: a successful command(text) writes one ExecCommand packet with
\* text, consumes one response frame and returns that frame's payload, header and
\* terminator removed, byte for byte.
C8_ReturnsPayloadByteForByte ==
    SuccessfulCommand
        => (OneCommandOneFrame /\ EncodeUtf8(last.text) = HeadPayload(last.wire))

\* C8 as amended: ... and returns that frame's payload decoded as UTF-8 with
\* errors="replace": byte for byte when the payload is valid UTF-8, every
\* invalid byte replaced by U+FFFD otherwise.
C8_ReturnsPayloadDecoded ==
    SuccessfulCommand
        => /\ OneCommandOneFrame
           /\ last.text = DecodeReplace(HeadPayload(last.wire))
           /\ IsAscii(HeadPayload(last.wire))
                => EncodeUtf8(last.text) = HeadPayload(last.wire)

C8_Witness ==
    /\ SuccessfulCommand
    /\ last.execKind = "frag"
    /\ last.text = << ReplacementChar, 65 >>
    /\ last.left # << >>

\* C9: ping and _send_rcon_command have closed the socket they opened whenever
\* they return or raise.
C9_SocketClosedOnEveryExit ==
    (mc.stage = "done" /\ mc.created) => (mc.closed /\ ~mc.sockOpen)

\* C10: an RconClient never has more than one open socket, neither between calls
\* nor within one.
C10_AtMostOneOpenSocket ==
    client = "RconClient" => (Cardinality(sockOpen) <= 1 /\ last.peak <= 1)

\* a ping() that got as far as its receive loop
PingReceiving ==
    /\ mc.stage = "done"
    /\ mc.call = "ping"
    /\ mc.env = "ok"
    /\ mc.port <= 65535

\* the bytes held after the j-th recv, and the recvs after which they parse
PingBuffer(j) == Flatten(SubSeq(McStream.chunks, 1, j))
PingParsesAt == {j \in 1 .. Len(McStream.chunks) : ParseResponse(PingBuffer(j)).ok}

C12_PingNeverRaises ==
    (mc.stage = "done" /\ mc.call = "ping") => mc.ret \in {"status", "None"}

\* a finished run of an entry point that was given an operation name
DispatchDone == dp.stage = "done" /\ dp.argc >= 1

OneErrorWritten == Len(dp.out) = 1 /\ dp.out[1].shape = "error"

\* C13: a dispatcher given an operation name that is not in its registry writes
\* an error-shaped result and invokes no handler.
C13_UnknownOperationRunsNoHandler ==
    (DispatchDone /\ dp.name \notin Registry(dp.which))
        => (dp.calls = << >> /\ OneErrorWritten)

C13_Witness ==
    /\ DispatchDone
    /\ dp.which = "minecraft"
    /\ dp.name = "provision"
    /\ dp.input = "{}"
    /\ dp.out = << ErrorObject("Unknown function") >>
    /\ dp.calls = << >>

\* C14: a dispatcher whose config text is not JSON writes an error result and
\* runs no handler; no handler is called with a config not parsed from the input.
C14_MalformedConfigRunsNoHandler ==
    /\ (DispatchDone /\ ~JsonConfig(dp.input).ok) => (dp.calls = << >> /\ OneErrorWritten)
    /\ \A i \in 1 .. Len(dp.calls) : dp.calls[i].parsed

\* C15: an exception raised by the called handler is caught and turned into a
\* failure result carrying the error text; no run ends with an uncaught exception.
C15_HandlerExceptionBecomesFailure ==
    (dp.stage = "done" /\ dp.raised /\ dp.which \in {"compose", "template", "minecraft"})
        => (dp.exit # "uncaught" /\ dp.out = << ErrorObject("Error in handler") >>)

\* C16: every run of an entry point writes exactly one JSON object to standard
\* output.
C16_ExactlyOneObjectWritten ==
    dp.stage = "done" => Len(dp.out) = 1

\* C17: a handler is only ever called with a config whose top-level JSON value is
\* an object; an array, a scalar or null gives an error result and no call.
C17_HandlerGetsObjectOnly ==
    /\ \A i \in 1 .. Len(dp.calls) : IsJsonObject(dp.calls[i].config)
    /\ (DispatchDone /\ JsonConfig(dp.input).ok /\ ~IsJsonObject(JsonConfig(dp.input).value))
           => (dp.calls = << >> /\ OneErrorWritten)

\* the place of a call in the declared order of provision's steps
StepRank(e) ==
    IF e = "engine" THEN 1 ELSE IF e = "makedirs" THEN 2 ELSE IF e = "install" THEN 3 ELSE 4

EventsOf(p) == {p.events[i] : i \in 1 .. Len(p.events)}

StepsInOrder ==
    /\ \A i, j \in 1 .. Len(pv.events) : i < j => StepRank(pv.events[i]) < StepRank(pv.events[j])
    /\ pv.events # << >> => pv.events[1] = "engine"
    /\ "install" \in EventsOf(pv) => "makedirs" \in EventsOf(pv)
    /\ "write" \in EventsOf(pv) => "makedirs" \in EventsOf(pv)

\* the failures the steps report, read off what each step was given
EngineStepFails == ~pv.engine.daemon_ready
InstallStepFails ==
    /\ pv.engine.daemon_ready
    /\ pv.makedirs = "ok"
    /\ pv.installConfig = "steamcmd"
    /\ (pv.install.raises \/ ~pv.install.success)

ReturnedFailure == pv.ret.kind = "result" /\ ~pv.ret.success

StepError ==
    IF pv.failedAt = "engine" THEN pv.engine.message
    ELSE IF pv.install.raises THEN pv.install.error
    ELSE InstallError(pv.install)

\* C19: when a step of provision fails, the error in the result is the failing
\* step's own error text, nothing added and nothing removed.
C19_ErrorIsStepErrorVerbatim ==
    (pv.pc = "done" /\ pv.failedAt \in {"engine", "install"} /\ pv.ret.kind = "result"
     /\ StepError # "none")
        => pv.ret.error = << StepError >>

C27_OneShotReturnsOrRaisesSocketClosed ==
    last.op = "rcon_command" =>
        /\ last.ret \in {"text", "raised ConnectionError"}
        /\ last.connRet = "False" => last.ret = "raised ConnectionError"
        /\ last.wire = << >> => last.ret = "raised ConnectionError"
        /\ (last.connRet = "True" /\ last.execKind = "echo") => last.ret = "text"
        /\ last.ret = "raised ConnectionError" => last.text = << >>
        /\ last.opened \notin sockOpen
        /\ sockOpen = {}
        /\ socket = 0

\* an rcon_command whose password the server rejected: connect() returned False
\* with the socket still held, and the call has exited
C27_Witness ==
    /\ last.op = "rcon_command"
    /\ last.authKind = "reject"
    /\ last.opened # 0
    /\ last.ret = "raised ConnectionError"

AuthPacketsOf(sent) == {i \in 1 .. Len(sent) : sent[i].type = SERVERDATA_AUTH}

\* C28: one call of RconClient.connect() or RconClient.command() opens at most
\* one socket, makes at most one connection attempt and sends at most one Auth
\* packet and one command packet; a command() whose implicit connect failed
\* sends no command packet.
C28_OneAttemptOneAuthNoRetry ==
    [][(client = "RconClient" /\ last'.op \in {"connect", "command"}) =>
          /\ nsock' <= nsock + 1
          /\ last'.attempts <= 1
          /\ Cardinality(AuthPacketsOf(last'.sent)) <= 1
          /\ Len(last'.sent) <= 2
          /\ last'.connRet = "False" => ExecPacketsOf(last'.sent) = {}]_vars

\* a command() on a client without a socket whose implicit connect was rejected
\* by the server: one attempt, one Auth packet, None returned
C28_Witness ==
    /\ client = "RconClient"
    /\ last.op = "command"
    /\ ~last.hadSocket
    /\ last.connRet = "False"
    /\ last.authKind = "reject"
    /\ last.attempts = 1
    /\ Cardinality(AuthPacketsOf(last.sent)) = 1
    /\ last.ret = "None"

\* the request ids of the packets a call sent
IdsOf(sent) == {sent[i].id : i \in 1 .. Len(sent)}

\* C29: every request id an RCON client puts in an Auth or ExecCommand packet
\* lies in 1 .. 2^31-1: id 0 and negative ids are never used.
C29_RequestIdsArePositive ==
    \A q \in IdsOf(last.sent) \cup IdsOf(pal.last.sent) : q >= 1 /\ q <= MaxInt32

\* the packets the three RCON clients build for the frame's id, type and payload,
\* and the one _send_rcon_command builds for a text with a non-ASCII character
FramePackets ==
    {[bytes |-> SendPacket(fr.id, fr.type, fr.payload), payload |-> fr.payload],
     [bytes |-> PalMakePacket(fr.id, fr.type, fr.payload), payload |-> fr.payload],
     [bytes |-> McPack(fr.id, fr.type, fr.payload), payload |-> EncodeUtf8(fr.payload)],
     [bytes |-> McPack(fr.id, fr.type, fr.payload \o << ReplacementChar >>),
      payload |-> EncodeUtf8(fr.payload \o << ReplacementChar >>)]}

\* C30: every packet an RCON client writes starts with a 4-byte little-endian
\* length equal to 4 + 4 + len(payload) + 2: it counts the id, the type, the
\* payload and the two null bytes, and not the length field itself.
C30_LengthFieldCountsBodyOnly ==
    fr.stage # "idle" =>
        \A k \in FramePackets :
            /\ Len(k.bytes) = 4 + 4 + 4 + Len(k.payload) + 2
            /\ SubSeq(k.bytes, 1, 4) = << 4 + 4 + Len(k.payload) + 2, 0, 0, 0 >>
            /\ HeadSize(k.bytes) = Len(k.bytes) - 4
            /\ SubSeq(k.bytes, 13, Len(k.bytes) - 2) = k.payload
            /\ SubSeq(k.bytes, Len(k.bytes) - 1, Len(k.bytes)) = << 0, 0 >>

\* a frame with a two-byte payload, written whole and read by a client
C30_Witness ==
    /\ fr.stage = "read"
    /\ Len(fr.payload) = 2
    /\ FrameComplete
    /\ HeadSize(FrameBytes) = 12

StopSignals == {"taskkill", "SIGKILL", "SIGTERM"}

StopCount(events, what) == Cardinality({i \in 1 .. Len(events) : events[i] = what})

\* C25: a stop() with force false and an RCON password issues the RCON stop
\* before any signal, polls at most 30 times, returns the graceful success
\* without a signal once a poll finds the process gone, and sends a signal only
\* after 30 polls found it alive or after the RCON attempt failed.
C25_GracefulStopBeforeSignal ==
    (lc.fn = "stop" /\ lc.stage = "done" /\ lc.pid /\ ~lc.force /\ lc.rcon_password) =>
        /\ Len(lc.events) >= 1
        /\ lc.events[1] \in {"rcon stop", "rcon stop raised"}
        /\ StopCount(lc.events, "poll alive") + StopCount(lc.events, "poll gone") <= 30
        /\ StopCount(lc.events, "poll gone") >= 1 =>
              /\ lc.ret = "success"
              /\ lc.message = "messages.graceful_stop"
              /\ \A i \in 1 .. Len(lc.events) : lc.events[i] \notin StopSignals
        /\ \A i \in 1 .. Len(lc.events) :
              lc.events[i] \in StopSignals =>
                  /\ i = Len(lc.events)
                  /\ \/ StopCount(lc.events, "poll alive") = 30
                     \/ lc.events[1] = "rcon stop raised"

\* a stop() whose RCON stop went through and whose 30 polls all found the
\* process alive, so that SIGTERM was sent
C25_Witness ==
    /\ lc.fn = "stop"
    /\ lc.stage = "done"
    /\ ~lc.force
    /\ lc.rcon_password
    /\ Len(lc.events) = 32
    /\ lc.events[1] = "rcon stop"
    /\ lc.events[32] = "SIGTERM"

PercentsOf(p) == [i \in 1 .. Len(p.progress) |-> p.progress[i].json.percent]

\* C24: every progress event of provision is one line, the sentinel PROGRESS:
\* and a JSON object; the percents lie in 0 .. 100 and never decrease; and 100
\* has been reported at the end exactly when provision returns success = true.
C24_ProgressMonotoneAndHundredIffSuccess ==
    /\ \A i \in 1 .. Len(pv.progress) :
          /\ pv.progress[i].sentinel = "PROGRESS:"
          /\ DOMAIN pv.progress[i].json = {"percent", "message"}
          /\ pv.progress[i].json.percent \in 0 .. 100
    /\ \A i, j \in 1 .. Len(pv.progress) :
          i < j => PercentsOf(pv)[i] <= PercentsOf(pv)[j]
    /\ (pv.fn = "provision" /\ pv.pc = "done") =>
          ((\E i \in 1 .. Len(pv.progress) : PercentsOf(pv)[i] = 100)
              <=> (pv.ret.kind = "result" /\ pv.ret.success))

\* a provision that went through all its steps: 0, 33, 40, 66, 80 and 100 reported
C24_Witness ==
    /\ pv.fn = "provision"
    /\ pv.pc = "done"
    /\ pv.ret.success
    /\ PercentsOf(pv) = << 0, 33, 40, 66, 80, 100 >>

\* C22: the docker-compose.yml that provision or regenerate_compose has written
\* is what _generate_compose_yaml gives for the current config, whatever the
\* file held before and whichever of the two wrote it.
C22_ComposeFileIsFunctionOfConfig ==
    (pv.pc = "done" /\ pv.ret.kind = "result" /\ pv.ret.success) =>
        pv.compose = [exists |-> TRUE, lines |-> GenerateComposeYaml(pv)]

\* a regenerate_compose over a file that an earlier invocation generated from
\* another config
C22_Witness ==
    /\ pv.run = 2
    /\ pv.fn = "regenerate_compose"
    /\ pv.pc = "done"
    /\ pv.ret.success
    /\ pv.compose0.exists
    /\ pv.compose0.lines # << >>
    /\ pv.compose0.lines[1] = "services:"
    /\ pv.compose0 # pv.compose

\* the engine step of this invocation has selected the WSL2 channel
EngineSelectedWsl2 ==
    /\ pv.fn = "provision"
    /\ "engine" \in EventsOf(pv)
    /\ pv.engine.daemon_ready
    /\ pv.engine.wsl_mode

\* C23: once provision's engine step has selected the WSL2 channel, the Docker
\* and Compose commands built in that invocation go through wsl and the
\* installer is asked for the linux platform; the mode does not outlive the
\* process: an invocation without a wsl2_mode of its own starts from the
\* platform's default.
C23_Wsl2ModeForInvocationOnly ==
    /\ [](EngineSelectedWsl2 =>
            /\ pv.wsl2
            /\ Head(DockerCli(pv.wsl2)) = "wsl"
            /\ \A local \in BOOLEAN :
                  /\ Head(ComposeCli(pv.wsl2, local)) = "wsl"
                  /\ Head(ComposeCmd(pv.wsl2, local)) = "wsl"
            /\ "install" \in EventsOf(pv) => pv.platform = "linux")
    /\ [][(pv'.run # pv.run /\ pv'.override = "absent")
             => pv'.wsl2 = (pv.system = "Windows")]_vars

\* on Linux an engine step selected the WSL2 channel and the installer ran
C23_Witness ==
    /\ EngineSelectedWsl2
    /\ pv.system = "Linux"
    /\ pv.override = "absent"
    /\ "install" \in EventsOf(pv)
    /\ pv.platform = "linux"

\* C21: an install that finds the asset already present with the checksum of
\* the manifest does not download it again (and leaves it in place).
C21_PresentAssetNotDownloadedAgain ==
    (lc.fn = "install_server" /\ lc.stage = "done" /\ lc.jar0 = "matching"
     /\ lc.expected_sha1) =>
        /\ \A i \in 1 .. Len(lc.events) : lc.events[i] # "download"
        /\ lc.jar = "matching"

---------------------------------------------------------------------------
(* The exit status and the keys of the objects the entry points write.     *)

\* the arguments an entry point needs after the program name: the minecraft and
\* palworld blocks take the config as a second argument
ArgsNeeded(which) == IF which \in {"minecraft", "palworld"} THEN 2 ELSE 1

\* the invocation itself is wrong: an argument is missing, the operation is not
\* registered, or the config text is not JSON
InvocationFailed(d) ==
    \/ d.argc < ArgsNeeded(d.which)
    \/ ~Registered(d.which, d.name)
    \/ ~JsonConfig(d.input).ok

\* C31: an entry point exits with a nonzero status exactly when the invocation
\* itself failed (missing operation name, unknown operation, malformed config);
\* a run whose handler ran and whose result was written exits with status 0.
\* Runs that end in an uncaught exception are left to C15.
C31_NonzeroExitIffInvocationFailed ==
    (dp.stage = "done" /\ dp.exit \in {"0", "1"}) =>
        /\ (dp.exit # "0") <=> InvocationFailed(dp)
        /\ (dp.calls # << >> /\ Len(dp.out) = 1) => dp.exit = "0"

\* the keys of the JSON object an entry point writes
KeysOf(which, obj) ==
    IF obj.shape = "error"
    THEN IF which = "compose" THEN {"error"}
         ELSE IF which = "template" /\ obj.text = "Unknown function"
              THEN {"success", "message", "available"}
              ELSE {"success", "message"}
    ELSE IF which = "compose" THEN {"handled", "success"} ELSE {"success"}

\* C32: every object a lifecycle entry point writes has the key "success", and
\* every object compose_manager writes has the key "handled", the results for a
\* missing or unknown operation and for a malformed config included.
C32_ResultShapeConvention ==
    \A i \in 1 .. Len(dp.out) :
        IF dp.which = "compose" THEN "handled" \in KeysOf(dp.which, dp.out[i])
        ELSE "success" \in KeysOf(dp.which, dp.out[i])

---------------------------------------------------------------------------
(* The request of the Server List Ping.                                     *)

\* the Handshake frame byte by byte: length 11, packet id 0x00, protocol version
\* -1 as the five-byte VarInt FF FF FF FF 0F, the host with its length, the port
\* as two big-endian bytes, next_state 1
HandshakeBytes(host, port) ==
    << 6 + Len(host) + 4, 0, 255, 255, 255, 255, 15, Len(host) >> \o host
        \o << port \div 256, port % 256, 1 >>

\* the Status Request frame: length 1, packet id 0x00, no payload
StatusRequestBytes == << 1, 0 >>

---------------------------------------------------------------------------
(* The value of a ping and the way the stream was split.                   *)

\* the stream of the run delivered by a single recv
McUnsplit ==
    [chunks |-> IF mc.sent = 0 THEN << >> ELSE << SubSeq(mc.wire, 1, mc.sent) >>,
     end |-> mc.end]

\* the document the first frame of the bytes b announces: outer length, packet id
\* 0x00, inner length n, then n bytes; ok = FALSE when b holds no such frame
AnnouncedDocument(b) ==
    LET none == [ok |-> FALSE, value |-> << >>]
        v1 == ReadVarint(b, 0)
    IN  IF v1.exc \/ v1.big THEN none
        ELSE LET v2 == ReadVarint(b, v1.offset)
             IN  IF v2.exc \/ v2.big \/ v2.value # 0 THEN none
                 ELSE LET v3 == ReadVarint(b, v2.offset)
                      IN  IF v3.exc \/ v3.big \/ Len(b) < v3.offset + v3.value THEN none
                          ELSE [ok |-> TRUE, value |-> Slice(b, v3.offset, v3.offset + v3.value)]

\* C39: for the bytes a server sent, ping returns the same value however they
\* were split across recv calls, and a returned status is the whole JSON document
\* the first frame with packet id 0x00 announces, never a prefix of it.
C39_PingValueIndependentOfSplit ==
    PingReceiving =>
        /\ mc.ret = PingLoop(McUnsplit, << >>).ret
        /\ mc.value = PingLoop(McUnsplit, << >>).value
        /\ mc.ret = "status" =>
              LET d == AnnouncedDocument(SubSeq(mc.wire, 1, mc.sent))
              IN  d.ok /\ mc.value = d.value

---------------------------------------------------------------------------
(* The connection state of the RCON clients between calls.                 *)

\* C38: after any sequence of connect(), command() and disconnect() calls of an
\* RconClient, with any connection, authentication and I/O failures, a client
\* whose authenticated flag is True holds an open socket.
C38_AuthenticatedImpliesOpenSocket ==
    (client = "RconClient" /\ authenticated) => (socket # 0 /\ socket \in sockOpen)

\* C37: with a password configured, a command packet is written only to a
\* connection on which the server accepted the authentication: a command() that
\* connects by itself sends its packet only when that connect returned True, and a
\* command() issued right after a connect() that returned False sends nothing on
\* the socket that connect() left.
C37_NoCommandOnUnauthenticatedConnection ==
    [][(client = "RconClient" /\ password /\ last'.op = "command"
        /\ ExecPacketsOf(last'.sent) # {}) =>
          /\ socket = 0 => last'.connRet = "True"
          /\ ~(socket # 0 /\ last.op = "connect" /\ last.ret = "False")]_vars

\* C36: the text RconClient.command returns is the payload of the response frame
\* whose request id equals the id sent with that command; a response that arrives
\* after its own command gave up is never returned by a later command.  The
\* server is one that echoes the id of the request it answers.
C36_ResponseMatchesRequestId ==
    (client = "RconClient" /\ last.op = "command" /\ last.ret = "text"
     /\ last.execKind # "reject")
        => UnpackI32(SubSeq(last.wire, 5, 8)) = last.sent[Len(last.sent)].id

\* C34: disconnect() of either RCON client leaves it disconnected, with no socket
\* held and authenticated false, from whatever state it was called in; a second
\* disconnect() changes nothing, and a command issued afterwards connects anew
\* instead of writing to the closed socket.
C34_DisconnectLeavesDisconnected ==
    /\ [](/\ (client = "RconClient" /\ last.op = "disconnect")
                => (socket = 0 /\ ~authenticated)
          /\ (client = "PalworldRconClient" /\ pal.last.op = "disconnect")
                => (pal.socket = 0 /\ ~pal.authenticated))
    /\ [][/\ (client = "RconClient" /\ last.op = "disconnect" /\ last'.op = "command")
                => ~last'.hadSocket
          /\ (client = "PalworldRconClient" /\ pal.last.op = "disconnect"
              /\ pal'.last.op = "command")
                => ~pal'.last.hadSocket]_vars

---------------------------------------------------------------------------
(* An explicit wsl2_mode in the config and the engine step of provision.   *)

\* the commands built with the mode as it is now go to the local docker, and an
\* installer that ran was given the platform of the config
LocalChannel ==
    /\ ~pv.wsl2
    /\ DockerCli(pv.wsl2) = << "docker" >>
    /\ \A local \in BOOLEAN :
          /\ Head(ComposeCli(pv.wsl2, local)) # "wsl"
          /\ Head(ComposeCmd(pv.wsl2, local)) # "wsl"
    /\ "install" \in EventsOf(pv) => pv.platform = "config"

\* C40 as stated: with wsl2_mode = false in the config, every command built in
\* the invocation uses the local channel, in every step of provision too.
C40_ExplicitLocalForWholeInvocation ==
    pv.override = "false" => LocalChannel

\* C40, amended: with wsl2_mode = false in the config, the commands built in the
\* invocation use the local channel on every platform, unless and until the
\* engine step of provision reports wsl_mode; from then on they use WSL2.
C40_ExplicitLocalUntilEngineSelects ==
    pv.override = "false" =>
        IF EngineSelectedWsl2 THEN pv.wsl2 /\ Head(DockerCli(pv.wsl2)) = "wsl"
        ELSE LocalChannel

\* on Windows, a provision told wsl2_mode = false whose engine did not report
\* wsl_mode ran its installer with the local channel
C40_Witness ==
    /\ pv.override = "false"
    /\ pv.system = "Windows"
    /\ pv.fn = "provision"
    /\ pv.engine.daemon_ready
    /\ ~pv.engine.wsl_mode
    /\ "install" \in EventsOf(pv)
    /\ pv.platform = "config"
    /\ ~pv.wsl2

---------------------------------------------------------------------------
(* What install_server leaves at jar_path.                                  *)

InstallServerDone == lc.fn = "install_server" /\ lc.stage = "done"

\* C35 as stated: an install_server that returns a failure because the download
\* raised or the SHA1 did not match leaves no file at jar_path, and one that
\* returns success leaves a file with the expected SHA1 of the version metadata.
C35_FailureLeavesNoFile ==
    InstallServerDone =>
        /\ (lc.ret = "failure" /\ lc.message \in {"Download failed", "SHA1 mismatch"})
              => lc.jar = "absent"
        /\ (lc.ret = "success" /\ lc.expected_sha1) => lc.jar = "matching"

\* C35, amended: such a failure leaves no file at jar_path unless the removal of
\* the file failed, which the handler of a failed download ignores; a success for
\* a version whose metadata carries a sha1 leaves a file with that SHA1.
C35_FailureLeavesNoFileUnlessRemoveFailed ==
    InstallServerDone =>
        /\ (lc.ret = "failure" /\ lc.message \in {"Download failed", "SHA1 mismatch"}
            /\ lc.remove = "ok")
              => lc.jar = "absent"
        /\ (lc.ret = "failure" /\ lc.message = "SHA1 mismatch") => lc.jar = "absent"
        /\ (lc.ret = "success" /\ lc.expected_sha1) => lc.jar = "matching"

\* a download that raised after the file was opened, over a jar that was there:
\* the partial file was removed and the call returned the failure
C35_Witness ==
    /\ InstallServerDone
    /\ lc.download = "raises"
    /\ lc.jar0 = "other"
    /\ lc.remove = "ok"
    /\ lc.ret = "failure"
    /\ lc.message = "Download failed"
    /\ lc.jar = "absent"

=============================================================================
